---- MODULE Spec2Model ----
(***************************************************************************)
(* A model of the recipe execution engine of agentic-dataops:              *)
(*   src/agent/core.py          dq_check, transform (with its sandbox),    *)
(*                              load_df, save_df, profile_df               *)
(*   src/agent/orchestrator.py  plan, reflect, run_agent, write_report     *)
(*   src/agent/memory.py        load_memory, save_memory, MEM, safe_path   *)
(*                                                                         *)
(* Python values are modelled as follows.                                  *)
(*   dict      a sequence of <<key, value>> pairs in insertion order       *)
(*             (Python dicts keep insertion order), keys unique            *)
(*   list      a sequence                                                  *)
(*   None      the string NoneVal where a string is expected, NoneDf       *)
(*             where a DataFrame is expected                               *)
(*   cell      a tagged record: Num(n), Str(s), Bool(b) or Null (NaN/None) *)
(*   DataFrame [cols |-> sequence of column names,                         *)
(*              rows |-> sequence of functions column name -> cell]        *)
(*   f-string  a record holding the values the text is built from          *)
(***************************************************************************)
EXTENDS Integers, Sequences, FiniteSets, TLC

\* ------------------------------------------------------------------------
\* Python dicts
\* ------------------------------------------------------------------------
EmptyDict == <<>>

Has(d, k) == \E i \in 1..Len(d) : d[i][1] = k

Get(d, k) == d[CHOOSE i \in 1..Len(d) : d[i][1] = k][2]

GetOr(d, k, default) == IF Has(d, k) THEN Get(d, k) ELSE default

Put(d, k, v) ==
    IF Has(d, k)
    THEN [i \in 1..Len(d) |-> IF d[i][1] = k THEN <<k, v>> ELSE d[i]]
    ELSE Append(d, <<k, v>>)

Keys(d) == [i \in 1..Len(d) |-> d[i][1]]

InSeq(x, s) == \E i \in 1..Len(s) : s[i] = x

SeqToSet(s) == {s[i] : i \in 1..Len(s)}

\* ------------------------------------------------------------------------
\* Cells and tables
\* ------------------------------------------------------------------------
Num(n) == [t |-> "num", n |-> n]
Str(s) == [t |-> "str", s |-> s]
Bool(b) == [t |-> "bool", b |-> b]
Null == [t |-> "null"]

NoneVal == "<None>"
NoneDf == [none |-> TRUE]

IsDf(x) == "cols" \in DOMAIN x

NRows(df) == Len(df.rows)

HasCol(df, c) == InSeq(c, df.cols)

Column(df, c) == [i \in 1..NRows(df) |-> df.rows[i][c]]

\* The number of indices of a sequence that satisfy a test.
CountIdx(s, Test(_)) == Cardinality({i \in 1..Len(s) : Test(i)})

\* The subsequence of the indices that satisfy a test, order kept.
RECURSIVE FilterIdx(_, _, _)
FilterIdx(s, Keep(_), i) ==
    IF i > Len(s) THEN <<>>
    ELSE (IF Keep(i) THEN <<s[i]>> ELSE <<>>) \o FilterIdx(s, Keep, i + 1)

\* The concatenation of F(s[1]), F(s[2]), ... (a loop appending to a list).
RECURSIVE ConcatMap(_, _, _)
ConcatMap(s, F(_), i) ==
    IF i > Len(s) THEN <<>> ELSE F(s[i]) \o ConcatMap(s, F, i + 1)

\* ------------------------------------------------------------------------
\* core.py: profile_df
\* ------------------------------------------------------------------------
\* s.nunique(dropna=True)
NUnique(vals) == Cardinality({vals[i] : i \in 1..Len(vals)} \ {Null})

\* s.isna().sum()
NullCount(vals) == CountIdx(vals, LAMBDA i : vals[i] = Null)

\* The structural part of the profile: rows, cols and per column the null
\* count and the cardinality.  dtype, null_pct and the numeric statistics
\* (floats) and top_values are functions of the same column and are read by
\* no code of the engine; they are left out.
profile_df(df) ==
    [rows |-> NRows(df),
     cols |-> Len(df.cols),
     columns |-> [i \in 1..Len(df.cols) |->
                    <<df.cols[i],
                      [nulls |-> NullCount(Column(df, df.cols[i])),
                       nunique |-> NUnique(Column(df, df.cols[i]))]>>]]

\* ------------------------------------------------------------------------
\* core.py: dq_check
\* ------------------------------------------------------------------------
\* An issue text is modelled by the record of what the f-string prints.
Issue(kind, col, n) == [kind |-> kind, col |-> col, n |-> n]
IssueB(kind, col, bound, n) == [kind |-> kind, col |-> col, bound |-> bound, n |-> n]

\* The number of distinct values that occur more than once.
DuplicateCountValues(vals) ==
    Cardinality({vals[i] : i \in {k \in 1..Len(vals) : \E j \in 1..(k - 1) : vals[j] = vals[k]}})

\* df.duplicated(subset=[col]).sum(): rows whose value equals the value of
\* an earlier row (NaN counts as equal to NaN).
DuplicateCount(vals) ==
    CountIdx(vals, LAMBDA i : \E j \in 1..(i - 1) : vals[j] = vals[i])

\* The non_null rule without the branch of line 80: a column the table
\* lacks is passed over.
NonNullIssuesSkipMissing(df, col) ==
    IF ~HasCol(df, col) THEN <<>>
    ELSE LET n == NullCount(Column(df, col))
         IN IF n > 0 THEN <<Issue("non_null", col, n)>> ELSE <<>>

NonNullIssues(df, col) ==
    IF ~HasCol(df, col) THEN <<Issue("missing_non_null", col, 0)>>
    ELSE LET n == NullCount(Column(df, col))
         IN IF n > 0 THEN <<Issue("non_null", col, n)>> ELSE <<>>

UniqueIssues(df, col) ==
    IF ~HasCol(df, col) THEN <<Issue("missing_unique", col, 0)>>
    ELSE LET dup == DuplicateCount(Column(df, col))
         IN IF dup > 0 THEN <<Issue("unique", col, dup)>> ELSE <<>>

\* s[s < bound].shape[0]: a comparison with NaN is False.
BelowCount(vals, bound) ==
    CountIdx(vals, LAMBDA i : vals[i].t = "num" /\ vals[i].n < bound)

AboveCount(vals, bound) ==
    CountIdx(vals, LAMBDA i : vals[i].t = "num" /\ vals[i].n > bound)

\* The range rule with the test of "max" before the test of "min".
RangeIssuesMaxFirst(df, rule) ==
    LET col == rule[1]
        bounds == rule[2]
    IN IF ~HasCol(df, col) THEN <<Issue("missing_range", col, 0)>>
       ELSE LET s == Column(df, col)
                lo == IF Has(bounds, "min") THEN BelowCount(s, Get(bounds, "min")) ELSE 0
                hi == IF Has(bounds, "max") THEN AboveCount(s, Get(bounds, "max")) ELSE 0
            IN (IF hi > 0 THEN <<IssueB("range_max", col, Get(bounds, "max"), hi)>> ELSE <<>>)
               \o (IF lo > 0 THEN <<IssueB("range_min", col, Get(bounds, "min"), lo)>> ELSE <<>>)

\* rule is one item <<col, bounds>> of rules["range"].
RangeIssues(df, rule) ==
    LET col == rule[1]
        bounds == rule[2]
    IN IF ~HasCol(df, col) THEN <<Issue("missing_range", col, 0)>>
       ELSE LET s == Column(df, col)
                lo == IF Has(bounds, "min") THEN BelowCount(s, Get(bounds, "min")) ELSE 0
                hi == IF Has(bounds, "max") THEN AboveCount(s, Get(bounds, "max")) ELSE 0
            IN (IF lo > 0 THEN <<IssueB("range_min", col, Get(bounds, "min"), lo)>> ELSE <<>>)
               \o (IF hi > 0 THEN <<IssueB("range_max", col, Get(bounds, "max"), hi)>> ELSE <<>>)

\* rule is one item <<col, allowed>> of rules["allowed_values"]; allowed is a
\* list of cells.  NaN is outside every list that does not hold it.
AllowedIssues(df, rule) ==
    LET col == rule[1]
        allowed == rule[2]
    IN IF ~HasCol(df, col) THEN <<Issue("missing_allowed_values", col, 0)>>
       ELSE LET s == Column(df, col)
                bad == CountIdx(s, LAMBDA i : ~InSeq(s[i], allowed))
            IN IF bad > 0 THEN <<Issue("allowed_values", col, bad)>> ELSE <<>>

\* `s < bounds["min"]` raises TypeError when the column holds text.
RangeRaises(df, rule) ==
    /\ HasCol(df, rule[1])
    /\ Has(rule[2], "min") \/ Has(rule[2], "max")
    /\ \E i \in 1..NRows(df) : df.rows[i][rule[1]].t = "str"

DqRaises(df, rules) ==
    \E i \in 1..Len(GetOr(rules, "range", EmptyDict)) :
        RangeRaises(df, GetOr(rules, "range", EmptyDict)[i])

dq_issues(df, rules) ==
    ConcatMap(GetOr(rules, "non_null", <<>>), LAMBDA col : NonNullIssues(df, col), 1)
    \o ConcatMap(GetOr(rules, "unique", <<>>), LAMBDA col : UniqueIssues(df, col), 1)
    \o ConcatMap(GetOr(rules, "range", EmptyDict), LAMBDA r : RangeIssues(df, r), 1)
    \o ConcatMap(GetOr(rules, "allowed_values", EmptyDict), LAMBDA r : AllowedIssues(df, r), 1)

\* The result of dq_check: the exception it raises, or (ok, issues).
dq_check(df, rules) ==
    IF DqRaises(df, rules) THEN [raised |-> "TypeError"]
    ELSE LET issues == dq_issues(df, rules)
         IN [raised |-> "", ok |-> Len(issues) = 0, issues |-> issues]

\* ------------------------------------------------------------------------
\* Python syntax trees (module ast), as far as the expressions of the model
\* use them.  A comprehension's single generator is flattened into the
\* node: elt, target, iter.
\* ------------------------------------------------------------------------
Expression(body) == [ty |-> "Expression", body |-> body]
Name(id) == [ty |-> "Name", id |-> id]
Constant(c) == [ty |-> "Constant", c |-> c]
Attribute(value, attr) == [ty |-> "Attribute", value |-> value, attr |-> attr]
Subscript(value, slice) == [ty |-> "Subscript", value |-> value, slice |-> slice]
Call(func, args) == [ty |-> "Call", func |-> func, args |-> args]
BinOp(left, op, right) == [ty |-> "BinOp", left |-> left, op |-> op, right |-> right]
Compare(left, op, right) == [ty |-> "Compare", left |-> left, op |-> op, right |-> right]
BoolOp(op, values) == [ty |-> "BoolOp", op |-> op, values |-> values]
ListNode(elts) == [ty |-> "List", elts |-> elts]
Lambda(body) == [ty |-> "Lambda", body |-> body]
ListComp(elt, target, iter) == [ty |-> "ListComp", elt |-> elt, target |-> target, iter |-> iter]
SetComp(elt, target, iter) == [ty |-> "SetComp", elt |-> elt, target |-> target, iter |-> iter]
GeneratorExp(elt, target, iter) == [ty |-> "GeneratorExp", elt |-> elt, target |-> target, iter |-> iter]
DictComp(key, value, target, iter) ==
    [ty |-> "DictComp", key |-> key, value |-> value, target |-> target, iter |-> iter]

\* The child nodes in the order ast.NodeVisitor.generic_visit visits them
\* (ast.iter_fields: the _fields order of the node class).
Children(node) ==
    CASE node.ty = "Expression" -> <<node.body>>
      [] node.ty = "Attribute" -> <<node.value>>
      [] node.ty = "Subscript" -> <<node.value, node.slice>>
      [] node.ty = "Call" -> <<node.func>> \o node.args
      [] node.ty = "BinOp" -> <<node.left, node.right>>
      [] node.ty = "Compare" -> <<node.left, node.right>>
      [] node.ty = "BoolOp" -> node.values
      [] node.ty = "List" -> node.elts
      [] node.ty = "Lambda" -> <<node.body>>
      [] node.ty \in {"ListComp", "SetComp", "GeneratorExp"} ->
            <<node.elt, node.target, node.iter>>
      [] node.ty = "DictComp" -> <<node.key, node.value, node.target, node.iter>>
      [] OTHER -> <<>>

\* ------------------------------------------------------------------------
\* core.py: the sandbox of the derive stage
\* ------------------------------------------------------------------------
\* The name a call or attribute chain starts from, or NoneVal.
RECURSIVE _get_root_name(_)
_get_root_name(node) ==
    CASE node.ty = "Name" -> node.id
      [] node.ty = "Attribute" -> _get_root_name(node.value)
      [] node.ty = "Subscript" -> _get_root_name(node.value)
      [] node.ty = "Call" -> _get_root_name(node.func)
      [] OTHER -> NoneVal

\* The ValueError a visit_* method of _SafeVisitor raises at one node, by
\* the error kind its message stands for, or "" when the method returns.
\*   DisallowedName       "Use of name '...' is not allowed ..."
\*   DisallowedCall       "Function calls to '...' are not allowed ..."
\*   DisallowedAttribute  "Access to dunder attributes is not allowed"
\*   DisallowedConstruct  "Lambdas / Comprehensions / Import statements are
\*                         not allowed ..."
\* An attribute name is the sequence of its characters.
visit_Name(node, allowed_names) ==
    IF node.id \notin allowed_names THEN "DisallowedName" ELSE ""

\* visit_Call without the test `root is None`.
visit_CallAnyRoot(node, allowed_roots) ==
    LET root == _get_root_name(node.func)
    IN IF root # NoneVal /\ root \notin allowed_roots THEN "DisallowedCall" ELSE ""

visit_Call(node, allowed_roots) ==
    LET root == _get_root_name(node.func)
    IN IF root = NoneVal \/ root \notin allowed_roots THEN "DisallowedCall" ELSE ""

StartsWith(s, prefix) ==
    /\ Len(s) >= Len(prefix)
    /\ \A i \in 1..Len(prefix) : s[i] = prefix[i]

visit_Attribute(node) ==
    IF StartsWith(node.attr, <<"_", "_">>) THEN "DisallowedAttribute" ELSE ""

\* One step of visitor.visit: the dispatch on the node class.  Classes with
\* no visit_* method fall to generic_visit, which raises nothing itself.
VisitNode(node, allowed_names, allowed_roots) ==
    CASE node.ty = "Name" -> visit_Name(node, allowed_names)
      [] node.ty = "Call" -> visit_Call(node, allowed_roots)
      [] node.ty = "Attribute" -> visit_Attribute(node)
      [] node.ty = "Lambda" -> "DisallowedConstruct"
      [] node.ty = "ListComp" -> "DisallowedConstruct"
      [] node.ty = "GeneratorExp" -> "DisallowedConstruct"
      [] OTHER -> ""

\* visitor.visit(node) to its end: the depth-first, parent-first walk over
\* the nodes still to visit; the first error raised, or "".
RECURSIVE Walk(_, _, _)
Walk(todo, allowed_names, allowed_roots) ==
    IF Len(todo) = 0 THEN ""
    ELSE LET err == VisitNode(Head(todo), allowed_names, allowed_roots)
         IN IF err # "" THEN err
            ELSE Walk(Children(Head(todo)) \o Tail(todo), allowed_names, allowed_roots)

\* ------------------------------------------------------------------------
\* Evaluation of expressions: the values of the interpreter
\* ------------------------------------------------------------------------
VScalar(c) == [k |-> "scalar", c |-> c]
VSeries(vals) == [k |-> "series", v |-> vals]
VFrame == [k |-> "frame"]
VObj(name) == [k |-> "object", name |-> name]
VMethod(self, attr) == [k |-> "method", self |-> self, attr |-> attr]
VAccessor(name, vals) == [k |-> "accessor", name |-> name, v |-> vals]
VColl(kind) == [k |-> "collection", kind |-> kind]
VErr(e) == [k |-> "error", e |-> e]

IsErr(val) == val.k = "error"

\* Attribute names, as character sequences.
A_dt == <<"d", "t">>
A_date == <<"d", "a", "t", "e">>
A_astype == <<"a", "s", "t", "y", "p", "e">>
A_pop == <<"p", "o", "p">>
A_to_datetime == <<"t", "o", "_", "d", "a", "t", "e", "t", "i", "m", "e">>
A_class == <<"_", "_", "c", "l", "a", "s", "s", "_", "_">>
A_mgr == <<"_", "m", "g", "r">>
A_upper == <<"u", "p", "p", "e", "r">>
A_ge == <<"_", "_", "g", "e", "_", "_">>
A_to_csv == <<"t", "o", "_", "c", "s", "v">>

\* The texts pd.to_datetime parses in this model, with the day each falls on.
DayOf(s) ==
    CASE s = "2025-01-01" -> "2025-01-01"
      [] s = "2025-01-01 09:30" -> "2025-01-01"
      [] s = "2025-01-02" -> "2025-01-02"
      [] s = "2025-01-02 17:45" -> "2025-01-02"
      [] OTHER -> NoneVal

\* Arithmetic on two cells: NaN propagates; text or booleans raise TypeError
\* (marked by the cell [t |-> "err"]).  True division that does not come out
\* even (or divides by zero: inf) is kept as the unreduced ratio.
CellErr == [t |-> "err"]

CellArith(op, a, b) ==
    IF a.t = "err" \/ b.t = "err" THEN CellErr
    ELSE IF a.t = "null" \/ b.t = "null" THEN Null
    ELSE IF a.t # "num" \/ b.t # "num" THEN CellErr
    ELSE CASE op = "Add" -> Num(a.n + b.n)
           [] op = "Sub" -> Num(a.n - b.n)
           [] op = "Mult" -> Num(a.n * b.n)
           [] op = "Div" ->
                IF b.n > 0 /\ (a.n % b.n) = 0 THEN Num(a.n \div b.n)
                ELSE [t |-> "ratio", n |-> a.n, d |-> b.n]
           [] OTHER -> CellErr

\* A comparison of two cells: with NaN everything but != is False; numbers
\* compare by value; == and != work across types; ordering text against a
\* number raises TypeError.
CellCompare(op, a, b) ==
    IF a.t = "err" \/ b.t = "err" THEN CellErr
    ELSE IF a.t = "null" \/ b.t = "null" THEN Bool(op = "NotEq")
    ELSE IF op = "Eq" THEN Bool(a = b)
    ELSE IF op = "NotEq" THEN Bool(a # b)
    ELSE IF a.t # "num" \/ b.t # "num" THEN CellErr
    ELSE CASE op = "Lt" -> Bool(a.n < b.n)
           [] op = "LtE" -> Bool(a.n <= b.n)
           [] op = "Gt" -> Bool(a.n > b.n)
           [] op = "GtE" -> Bool(a.n >= b.n)
           [] OTHER -> CellErr

AnyErr(vals) == \E i \in 1..Len(vals) : vals[i].t = "err"

\* A binary cell operation lifted to scalars and series (a scalar operand
\* is broadcast; two series are aligned row by row).
Lift(F(_, _), x, y) ==
    CASE x.k = "series" /\ y.k = "series" ->
            IF Len(x.v) # Len(y.v) THEN VErr("ValueError")
            ELSE LET r == [i \in 1..Len(x.v) |-> F(x.v[i], y.v[i])]
                 IN IF AnyErr(r) THEN VErr("TypeError") ELSE VSeries(r)
      [] x.k = "series" /\ y.k = "scalar" ->
            LET r == [i \in 1..Len(x.v) |-> F(x.v[i], y.c)]
            IN IF AnyErr(r) THEN VErr("TypeError") ELSE VSeries(r)
      [] x.k = "scalar" /\ y.k = "series" ->
            LET r == [i \in 1..Len(y.v) |-> F(x.c, y.v[i])]
            IN IF AnyErr(r) THEN VErr("TypeError") ELSE VSeries(r)
      [] x.k = "scalar" /\ y.k = "scalar" ->
            LET r == F(x.c, y.c)
            IN IF r.t = "err" THEN VErr("TypeError") ELSE VScalar(r)
      [] OTHER -> VErr("TypeError")

AbsCell(c) ==
    CASE c.t = "num" -> Num(IF c.n < 0 THEN 0 - c.n ELSE c.n)
      [] c.t = "null" -> Null
      [] OTHER -> CellErr

\* abs(x)
ApplyAbs(x) ==
    CASE x.k = "series" ->
            LET r == [i \in 1..Len(x.v) |-> AbsCell(x.v[i])]
            IN IF AnyErr(r) THEN VErr("TypeError") ELSE VSeries(r)
      [] x.k = "scalar" ->
            IF AbsCell(x.c).t = "err" THEN VErr("TypeError") ELSE VScalar(AbsCell(x.c))
      [] OTHER -> VErr("TypeError")

\* pd.to_datetime(x) on a series of texts: a text that is no date raises.
ApplyToDatetime(x) ==
    IF x.k # "series" THEN VErr("TypeError")
    ELSE IF \E i \in 1..Len(x.v) :
                \/ x.v[i].t \notin {"str", "null"}
                \/ x.v[i].t = "str" /\ DayOf(x.v[i].s) = NoneVal
         THEN VErr("ValueError")
    ELSE VAccessor("datetimes", x.v)

\* obj.attr
GetAttr(x, attr) ==
    CASE x.k = "object" /\ x.name = "pd" /\ attr = A_to_datetime -> VObj("pd.to_datetime")
      [] x.k = "frame" /\ attr = A_pop -> VMethod(x, attr)
      [] x.k = "frame" /\ attr = A_mgr -> VObj("BlockManager")
      [] x.k = "frame" /\ attr = A_to_csv -> VMethod(x, attr)
      [] x.k = "series" /\ attr = A_ge -> VMethod(x, attr)
      [] x.k = "accessor" /\ x.name = "datetimes" /\ attr = A_dt -> VAccessor("dt", x.v)
      [] x.k = "accessor" /\ x.name = "dt" /\ attr = A_date ->
            VAccessor("dates",
                      [i \in 1..Len(x.v) |->
                          IF x.v[i].t = "str" THEN Str(DayOf(x.v[i].s)) ELSE Null])
      [] x.k = "accessor" /\ x.name = "dates" /\ attr = A_astype -> VMethod(x, attr)
      [] OTHER -> VErr("AttributeError")

\* df without one column (what df.pop leaves behind).
DropCol(df, c) ==
    LET keep == FilterIdx(df.cols, LAMBDA i : df.cols[i] # c, 1)
    IN [cols |-> keep,
        rows |-> [i \in 1..NRows(df) |-> [x \in SeqToSet(keep) |-> df.rows[i][x]]]]

\* f(args) for the callables of the model; df is the frame bound to `df`.
\* The result is the value and the frame as the call leaves it.
Apply(f, args, df) ==
    CASE f.k = "object" /\ f.name = "abs" /\ Len(args) = 1 ->
            [val |-> ApplyAbs(args[1]), df |-> df]
      [] f.k = "object" /\ f.name = "pd.to_datetime" /\ Len(args) = 1 ->
            [val |-> ApplyToDatetime(args[1]), df |-> df]
      [] f.k = "object" /\ f.name \in {"int", "float", "round"} /\ Len(args) = 1 ->
            [val |-> IF args[1].k = "scalar" /\ args[1].c.t = "num"
                     THEN args[1] ELSE VErr("TypeError"),
             df |-> df]
      [] f.k = "object" /\ f.name = "str" /\ Len(args) = 1 ->
            [val |-> IF args[1].k = "scalar" /\ args[1].c.t = "num"
                     THEN VScalar(Str(ToString(args[1].c.n)))
                     ELSE IF args[1].k = "scalar" /\ args[1].c.t = "str"
                     THEN args[1] ELSE VErr("TypeError"),
             df |-> df]
      [] f.k = "method" /\ f.attr = A_pop /\ Len(args) = 1 ->
            IF args[1].k = "scalar" /\ args[1].c.t = "str" /\ HasCol(df, args[1].c.s)
            THEN [val |-> VSeries(Column(df, args[1].c.s)),
                  df |-> DropCol(df, args[1].c.s)]
            ELSE [val |-> VErr("KeyError"), df |-> df]
      [] f.k = "method" /\ f.attr = A_to_csv /\ Len(args) = 1 ->
            [val |-> IF args[1].k = "scalar" /\ args[1].c.t = "str"
                     THEN VObj("None") ELSE VErr("TypeError"),
             df |-> df]
      [] f.k = "method" /\ f.attr = A_ge /\ Len(args) = 1 ->
            [val |-> Lift(LAMBDA a, b : CellCompare("GtE", a, b), f.self, args[1]),
             df |-> df]
      [] f.k = "method" /\ f.attr = A_astype /\ Len(args) = 1 ->
            [val |-> IF args[1].k = "object" /\ args[1].name = "str"
                     THEN VSeries([i \in 1..Len(f.self.v) |->
                                     IF f.self.v[i].t = "null" THEN Str("NaT")
                                     ELSE f.self.v[i]])
                     ELSE VErr("TypeError"),
             df |-> df]
      [] OTHER -> [val |-> VErr("TypeError"), df |-> df]

\* The truth of a bool cell, for the element-wise and / or of a query.
BoolAnd(a, b) == IF a.t = "bool" /\ b.t = "bool" THEN Bool(a.b /\ b.b) ELSE CellErr
BoolOr(a, b) == IF a.t = "bool" /\ b.t = "bool" THEN Bool(a.b \/ b.b) ELSE CellErr

\* The interpreter.  mode "python" is eval(code, {"__builtins__": {}}, locals)
\* where locals is the dict of the bound names; mode "query" is
\* DataFrame.query(expr, engine="python"), where a name is a column of the
\* frame, and / or work row by row and `x in [...]` is isin.
\*
\* Operands(node, mode) are the sub-expressions evaluated before the node
\* itself, in Python's order (left to right, the callee before the
\* arguments).  A comprehension or lambda evaluates nothing of its body when
\* the frame is bound; `and` / `or` on a series raise at the first operand
\* in Python.
Operands(node, mode) ==
    CASE node.ty = "Expression" -> <<node.body>>
      [] node.ty = "Subscript" -> <<node.value, node.slice>>
      [] node.ty = "Attribute" -> <<node.value>>
      [] node.ty = "Call" -> <<node.func>> \o node.args
      [] node.ty = "BinOp" -> <<node.left, node.right>>
      [] node.ty = "Compare" /\ node.op # "In" -> <<node.left, node.right>>
      [] node.ty = "Compare" /\ node.op = "In" -> <<node.left>>
      [] node.ty = "BoolOp" -> IF mode = "query" THEN node.values ELSE <<node.values[1]>>
      [] OTHER -> <<>>

\* The element-wise and / or of the operands of a query.
RECURSIVE FoldBool(_, _, _, _)
FoldBool(op, vals, i, acc) ==
    IF i > Len(vals) \/ IsErr(acc) THEN acc
    ELSE FoldBool(op, vals, i + 1,
                  IF op = "And" THEN Lift(BoolAnd, acc, vals[i])
                  ELSE Lift(BoolOr, acc, vals[i]))

\* The value of a node, given the values v of its operands and the frame df
\* as their evaluation left it: [val, df].
Combine(node, v, mode, locals, df) ==
    CASE node.ty = "Expression" -> [val |-> v[1], df |-> df]
      [] node.ty = "Constant" -> [val |-> VScalar(node.c), df |-> df]
      [] node.ty = "Name" ->
            IF mode = "query"
            THEN [val |-> IF HasCol(df, node.id) THEN VSeries(Column(df, node.id))
                          ELSE VErr("UndefinedVariableError"),
                  df |-> df]
            ELSE [val |-> IF Has(locals, node.id) THEN Get(locals, node.id)
                          ELSE VErr("NameError"),
                  df |-> df]
      [] node.ty = "Subscript" ->
            [val |-> IF v[1].k = "frame" /\ v[2].k = "scalar" /\ v[2].c.t = "str"
                     THEN IF HasCol(df, v[2].c.s) THEN VSeries(Column(df, v[2].c.s))
                          ELSE VErr("KeyError")
                     ELSE VErr("TypeError"),
             df |-> df]
      [] node.ty = "Attribute" -> [val |-> GetAttr(v[1], node.attr), df |-> df]
      [] node.ty = "Call" -> Apply(v[1], Tail(v), df)
      [] node.ty = "BinOp" ->
            [val |-> Lift(LAMBDA a, b : CellArith(node.op, a, b), v[1], v[2]), df |-> df]
      [] node.ty = "Compare" /\ node.op # "In" ->
            [val |-> Lift(LAMBDA a, b : CellCompare(node.op, a, b), v[1], v[2]), df |-> df]
      [] node.ty = "Compare" /\ node.op = "In" ->
            \* query: column.isin(list of constants); python: `series in
            \* list` asks for the truth value of a series and raises
            [val |-> IF mode = "query" /\ v[1].k = "series" /\ node.right.ty = "List"
                     THEN VSeries([i \in 1..Len(v[1].v) |->
                            Bool(\E j \in 1..Len(node.right.elts) :
                                    node.right.elts[j].c = v[1].v[i])])
                     ELSE VErr("ValueError"),
             df |-> df]
      [] node.ty = "BoolOp" ->
            [val |-> IF mode = "query" THEN FoldBool(node.op, v, 2, v[1])
                     ELSE VErr("ValueError"),
             df |-> df]
      [] node.ty = "List" -> [val |-> VColl("list"), df |-> df]
      [] node.ty = "ListComp" -> [val |-> VColl("list"), df |-> df]
      [] node.ty = "SetComp" -> [val |-> VColl("set"), df |-> df]
      [] node.ty = "DictComp" -> [val |-> VColl("dict"), df |-> df]
      [] node.ty = "GeneratorExp" -> [val |-> VObj("generator"), df |-> df]
      [] node.ty = "Lambda" -> [val |-> VObj("function"), df |-> df]

\* The file a path text of the model names.
HostPath(text) ==
    CASE text = "data/leak.csv" -> [dir |-> "data", name |-> "leak", ext |-> "csv"]

\* What the call at node does to the host outside the interpreter, given
\* the values v of the callee and the arguments and the frame df at the
\* call: df.to_csv(path) writes the frame to the file.  (The recipes of the
\* transform calls of the model hold no such expression.)
HostCalls(node, v, df) ==
    IF /\ node.ty = "Call"
       /\ Len(v) = 2
       /\ v[1].k = "method"
       /\ v[1].attr = A_to_csv
       /\ v[2].k = "scalar"
       /\ v[2].c.t = "str"
    THEN <<[op |-> "write", path |-> HostPath(v[2].c.s), frame |-> df]>>
    ELSE <<>>

\* EvalR(node, ...) is [val, df, io]: the value of the node (an error value
\* when the evaluation raises), the frame bound to `df` as the evaluation
\* leaves it (df.pop changes it in place), and the host calls made, in
\* order.  EvalSeq evaluates nodes i.. in order and stops at the first
\* error: [vals, err, df, io].
NoError == VScalar(Null)

\* The result r of a node with the host calls io of the whole evaluation.
WithIo(r, io) == [val |-> r.val, df |-> r.df, io |-> io]

RECURSIVE EvalR(_, _, _, _)
RECURSIVE EvalSeq(_, _, _, _, _)

\* The value a of the first node put before the values of the rest.
Cons(a, rest) ==
    [vals |-> <<a.val>> \o rest.vals, err |-> rest.err, df |-> rest.df,
     io |-> a.io \o rest.io]

\* What follows the evaluation a of node i: stop at an error, or go on.
EvalRest(nodes, i, mode, locals, a) ==
    IF IsErr(a.val) THEN [vals |-> <<>>, err |-> a.val, df |-> a.df, io |-> a.io]
    ELSE Cons(a, EvalSeq(nodes, i + 1, mode, locals, a.df))

EvalSeq(nodes, i, mode, locals, df) ==
    IF i > Len(nodes) THEN [vals |-> <<>>, err |-> NoError, df |-> df, io |-> <<>>]
    ELSE EvalRest(nodes, i, mode, locals, EvalR(nodes[i], mode, locals, df))

\* The node itself, once its operands kids are evaluated.
EvalNode(node, mode, locals, kids) ==
    IF IsErr(kids.err) THEN [val |-> kids.err, df |-> kids.df, io |-> kids.io]
    ELSE WithIo(Combine(node, kids.vals, mode, locals, kids.df),
                kids.io \o HostCalls(node, kids.vals, kids.df))

EvalR(node, mode, locals, df) ==
    EvalNode(node, mode, locals, EvalSeq(Operands(node, mode), 1, mode, locals, df))

\* The names core.py binds for a derive expression (safe_locals_base).
safe_locals_base ==
    << <<"pd", VObj("pd")>>, <<"df", VFrame>>, <<"str", VObj("str")>>,
       <<"int", VObj("int")>>, <<"float", VObj("float")>>,
       <<"abs", VObj("abs")>>, <<"round", VObj("round")>> >>

\* ------------------------------------------------------------------------
\* ast.parse(expr, mode="eval") on the expression texts of the model: the
\* tree, or SyntaxErrorTree where Python raises SyntaxError (a statement
\* such as an import is a syntax error in mode "eval").
\* ------------------------------------------------------------------------
SyntaxErrorTree == [ty |-> "SyntaxError"]

DfCol(c) == Subscript(Name("df"), Constant(Str(c)))

RegionList == ListNode(<<Constant(Str("APAC")), Constant(Str("EMEA")), Constant(Str("AMER"))>>)

Parse(expr) ==
    CASE expr = "df['revenue'] * 2" ->
            Expression(BinOp(DfCol("revenue"), "Mult", Constant(Num(2))))
      [] expr = "df['revenue'] / 1000" ->
            Expression(BinOp(DfCol("revenue"), "Div", Constant(Num(1000))))
      [] expr = "abs(df['revenue'])" ->
            Expression(Call(Name("abs"), <<DfCol("revenue")>>))
      [] expr = "pd.to_datetime(df['date']).dt.date.astype(str)" ->
            Expression(Call(Attribute(Attribute(Attribute(
                Call(Attribute(Name("pd"), A_to_datetime), <<DfCol("date")>>),
                A_dt), A_date), A_astype), <<Name("str")>>))
      [] expr = "df['rev2'] + 1" ->
            Expression(BinOp(DfCol("rev2"), "Add", Constant(Num(1))))
      [] expr = "df.pop('revenue')" ->
            Expression(Call(Attribute(Name("df"), A_pop), <<Constant(Str("revenue"))>>))
      [] expr = "df.to_csv('data/leak.csv')" ->
            Expression(Call(Attribute(Name("df"), A_to_csv),
                            <<Constant(Str("data/leak.csv"))>>))
      [] expr = "7" -> Expression(Constant(Num(7)))
      [] expr = "foo(1)" -> Expression(Call(Name("foo"), <<Constant(Num(1))>>))
      [] expr = "revenue" -> Expression(Name("revenue"))
      [] expr = "abs(foo)" -> Expression(Call(Name("abs"), <<Name("foo")>>))
      [] expr = "foo.bar(df)" ->
            Expression(Call(Attribute(Name("foo"), <<"b", "a", "r">>), <<Name("df")>>))
      [] expr = "df.__class__" -> Expression(Attribute(Name("df"), A_class))
      [] expr = "df._mgr" -> Expression(Attribute(Name("df"), A_mgr))
      [] expr = "lambda: 1" -> Expression(Lambda(Constant(Num(1))))
      [] expr = "[df for df in [1]]" ->
            Expression(ListComp(Name("df"), Name("df"), ListNode(<<Constant(Num(1))>>)))
      [] expr = "{df for df in [1]}" ->
            Expression(SetComp(Name("df"), Name("df"), ListNode(<<Constant(Num(1))>>)))
      [] expr = "{df: df for df in [1]}" ->
            Expression(DictComp(Name("df"), Name("df"), Name("df"),
                                ListNode(<<Constant(Num(1))>>)))
      [] expr = "(df for df in [1])" ->
            Expression(GeneratorExp(Name("df"), Name("df"), ListNode(<<Constant(Num(1))>>)))
      [] expr = "'a'.upper()" ->
            Expression(Call(Attribute(Constant(Str("a")), A_upper), <<>>))
      [] expr = "(lambda: 1)()" -> Expression(Call(Lambda(Constant(Num(1))), <<>>))
      [] expr = "abs(df['revenue']) + foo(1)" ->
            Expression(BinOp(Call(Name("abs"), <<DfCol("revenue")>>), "Add",
                             Call(Name("foo"), <<Constant(Num(1))>>)))
      [] expr = "region in ['APAC','EMEA','AMER'] and revenue >= 0" ->
            Expression(BoolOp("And",
                <<Compare(Name("region"), "In", RegionList),
                  Compare(Name("revenue"), "GtE", Constant(Num(0)))>>))
      [] expr = "revenue >= 0" ->
            Expression(Compare(Name("revenue"), "GtE", Constant(Num(0))))
      [] expr = "revenue > 5000" ->
            Expression(Compare(Name("revenue"), "Gt", Constant(Num(5000))))
      [] expr = "nosuch > 0" ->
            Expression(Compare(Name("nosuch"), "Gt", Constant(Num(0))))
      [] expr = "revenue.__ge__(0)" ->
            Expression(Call(Attribute(Name("revenue"), A_ge), <<Constant(Num(0))>>))
      [] expr = "revenue + 1" ->
            Expression(BinOp(Name("revenue"), "Add", Constant(Num(1))))
      [] expr \in {"1 +", "import os"} -> SyntaxErrorTree

\* safe_eval(expr, safe_locals), with df the frame bound to `df`.
\*   raised     the error kind the call raises ("" when it returns): the kind
\*              of the ValueError of parsing or validation, or the exception
\*              of the evaluation
\*   evaluated  whether eval() was called
\*   val, df    the value, and the frame as the evaluation leaves it
Rejected(kind, df) ==
    [raised |-> kind, evaluated |-> FALSE, val |-> VScalar(Null), df |-> df, io |-> <<>>]

\* The outcome of the call when eval() ran with the result r.
Evaluated(r) ==
    [raised |-> IF IsErr(r.val) THEN r.val.e ELSE "",
     evaluated |-> TRUE, val |-> r.val, df |-> r.df, io |-> r.io]

\* Lines 198-207 once the text is parsed into node.
ValidateThenEval(node, safe_locals, df, err) ==
    IF err # "" THEN Rejected(err, df)
    ELSE Evaluated(EvalR(node, "python", safe_locals, df))

safe_eval(expr, safe_locals, df) ==
    LET node == Parse(expr)
        allowed_names == SeqToSet(Keys(safe_locals))
        allowed_roots == allowed_names
    IN IF node = SyntaxErrorTree THEN Rejected("SyntaxError", df)
       ELSE ValidateThenEval(node, safe_locals, df,
                             Walk(<<node>>, allowed_names, allowed_roots))

\* ------------------------------------------------------------------------
\* Ordering of cells (sort_values / groupby sort): numbers by value, texts
\* by code point (the rank in StrOrder, which lists the texts of the model
\* in Python's order), NaN last.
\* ------------------------------------------------------------------------
StrOrder ==
    <<"2025-01-01", "2025-01-01 09:30", "2025-01-02", "2025-01-02 17:45",
      "AMER", "APAC", "Americas", "Asia Pacific", "BAD", "EMEA", "Europe",
      "NaT", "P1", "P2", "P3">>

StrRank(s) == CHOOSE i \in 1..Len(StrOrder) : StrOrder[i] = s

CellLess(a, b) ==
    CASE a.t = "null" -> FALSE
      [] b.t = "null" -> TRUE
      [] a.t = "num" /\ b.t = "num" -> a.n < b.n
      [] a.t = "str" /\ b.t = "str" -> StrRank(a.s) < StrRank(b.s)
      [] OTHER -> a.t = "num"

\* Lexicographic order on key tuples of one length.
KeyLess(k1, k2) ==
    \E i \in 1..Len(k1) :
        /\ CellLess(k1[i], k2[i])
        /\ \A j \in 1..(i - 1) : k1[j] = k2[j]

\* A stable insertion sort of a sequence of items by their key.
RECURSIVE InsertByKey(_, _, _)
InsertByKey(sorted, KeyOf(_), item) ==
    IF Len(sorted) = 0 THEN <<item>>
    ELSE IF KeyLess(KeyOf(item), KeyOf(Head(sorted)))
         THEN <<item>> \o sorted
         ELSE <<Head(sorted)>> \o InsertByKey(Tail(sorted), KeyOf, item)

RECURSIVE SortByKey(_, _)
SortByKey(KeyOf(_), s) ==
    IF Len(s) = 0 THEN <<>>
    ELSE InsertByKey(SortByKey(KeyOf, SubSeq(s, 1, Len(s) - 1)), KeyOf, s[Len(s)])

RECURSIVE SumNums(_)
SumNums(vals) ==
    IF Len(vals) = 0 THEN 0
    ELSE (IF Head(vals).t = "num" THEN Head(vals).n ELSE 0) + SumNums(Tail(vals))

\* ------------------------------------------------------------------------
\* core.py: transform.  Python names refer to objects: the state of one call
\* is
\*   heap    the DataFrame objects, by identity (index)
\*   out     the object the local `out` refers to
\*   raised  the exception that ended the call, "" while it runs
\*   stages  the stages applied so far, in order
\*   ins     per stage applied, the object `out` referred to when it began
\*   outs    per stage that bound a result, the object `out` refers to then
\*   evals   the expression texts handed to an evaluator (eval or query)
\* The caller's frame is object DfId; the auxiliary frames follow it.
\* ------------------------------------------------------------------------
DfId == 1

Out(ts) == ts.heap[ts.out]

\* A new object holding frame; `out` is rebound to it.
Alloc(ts, frame) ==
    [ts EXCEPT !.heap = Append(ts.heap, frame), !.out = Len(ts.heap) + 1]

Raise(ts, e) == [ts EXCEPT !.raised = e]

Idx(n) == [i \in 1..n |-> i]

\* out = out.copy(): a new object with the same content.
DfCopyAliased(ts) == ts

DfCopy(ts) == Alloc(ts, Out(ts))

\* df[cols]
Project(df, cols) ==
    [cols |-> cols,
     rows |-> [i \in 1..NRows(df) |-> [c \in SeqToSet(cols) |-> df.rows[i][c]]]]

\* out = out[recipe["select"]]
SelectStage(ts, recipe) ==
    LET cols == Get(recipe, "select")
    IN IF \E i \in 1..Len(cols) : ~HasCol(Out(ts), cols[i])
       THEN Raise(ts, "KeyError")
       ELSE Alloc(ts, Project(Out(ts), cols))

\* out = out.query(recipe["filter"], engine="python"): the expression goes
\* to pandas' own evaluator; the rows where the boolean result is True stay.
\* The rows of the frame that the boolean result r of the query keeps.
KeepRows(seen, r) ==
    IF IsErr(r) THEN Raise(seen, r.e)
    ELSE IF r.k # "series" \/ \E i \in 1..Len(r.v) : r.v[i].t # "bool"
    THEN Raise(seen, "ValueError")
    ELSE Alloc(seen,
               [cols |-> Out(seen).cols,
                rows |-> FilterIdx(Out(seen).rows, LAMBDA i : r.v[i].b, 1)])

FilterStage(ts, recipe) ==
    LET expr == Get(recipe, "filter")
        node == Parse(expr)
        seen == [ts EXCEPT !.evals = Append(ts.evals, expr)]
    IN IF node = SyntaxErrorTree THEN Raise(ts, "SyntaxError")
       ELSE KeepRows(seen, EvalR(node, "query", EmptyDict, Out(ts)).val)

\* The loop over recipe["derive"]: every expression is evaluated by
\* safe_eval with `df` bound to the one object df; the values are collected
\* in new_cols.  The first exception ends the loop.
RECURSIVE DeriveLoop(_, _, _, _, _)

\* The body of the loop for item i, given the outcome r of its safe_eval.
DeriveItem(derive, i, new_cols, evals, r) ==
    LET d == derive[i]
        ev == IF r.evaluated THEN Append(evals, Get(d, "expr")) ELSE evals
    IN IF r.raised # ""
       THEN [raised |-> r.raised, df |-> r.df, new_cols |-> new_cols, evals |-> ev]
       ELSE DeriveLoop(derive, i + 1, r.df, Put(new_cols, Get(d, "name"), r.val), ev)

DeriveLoop(derive, i, df, new_cols, evals) ==
    IF i > Len(derive)
    THEN [raised |-> "", df |-> df, new_cols |-> new_cols, evals |-> evals]
    ELSE DeriveItem(derive, i, new_cols, evals,
                    safe_eval(Get(derive[i], "expr"), safe_locals_base, df))

\* The column a value becomes in DataFrame.assign: a series as it is, a
\* scalar repeated for every row.
AssignableTo(df, val) ==
    \/ val.k = "scalar"
    \/ val.k = "series" /\ Len(val.v) = NRows(df)

ColumnOf(df, val) ==
    IF val.k = "series" THEN val.v ELSE [i \in 1..NRows(df) |-> val.c]

\* df.assign(**new_cols): a named column that exists is overwritten in its
\* place, a new one is appended.
Assign(df, new_cols) ==
    LET names == Keys(new_cols)
        added == FilterIdx(names, LAMBDA i : ~HasCol(df, names[i]), 1)
        cols == df.cols \o added
    IN [cols |-> cols,
        rows |-> [i \in 1..NRows(df) |->
                    [c \in SeqToSet(cols) |->
                        IF Has(new_cols, c) THEN ColumnOf(df, Get(new_cols, c))[i]
                        ELSE df.rows[i][c]]]]

\* The derive stage: copy, evaluate all, assign once.
\* Line 226 after the loop ended as loop on the copy.
DeriveAssign(copied, loop) ==
    LET after == [copied EXCEPT !.heap[copied.out] = loop.df, !.evals = loop.evals]
    IN IF loop.raised # "" THEN Raise(after, loop.raised)
       ELSE IF \E i \in 1..Len(loop.new_cols) : ~AssignableTo(loop.df, loop.new_cols[i][2])
       THEN Raise(after, "TypeError")
       ELSE Alloc(after, Assign(loop.df, loop.new_cols))

DeriveOn(copied, recipe) ==
    DeriveAssign(copied,
                 DeriveLoop(Get(recipe, "derive"), 1, Out(copied), EmptyDict, copied.evals))

DeriveStage(ts, recipe) == DeriveOn(DfCopy(ts), recipe)

\* left.merge(right, on=on, how=how).  A column both frames have outside the
\* keys gets the suffix _x (left) or _y (right).  Rows match when all keys
\* are equal (NaN matches NaN).
MergeHows == {"left", "right", "inner", "outer"}

Merge(left, right, on, how) ==
    LET common(c) == HasCol(left, c) /\ HasCol(right, c) /\ ~InSeq(c, on)
        LName(c) == IF common(c) THEN c \o "_x" ELSE c
        RName(c) == IF common(c) THEN c \o "_y" ELSE c
        rcols == FilterIdx(right.cols, LAMBDA i : ~InSeq(right.cols[i], on), 1)
        cols == [i \in 1..Len(left.cols) |-> LName(left.cols[i])]
                \o [i \in 1..Len(rcols) |-> RName(rcols[i])]
        match(i, j) == \A k \in 1..Len(on) : left.rows[i][on[k]] = right.rows[j][on[k]]
        \* the merged row of left row i and right row j; 0 stands for no row
        Row(i, j) ==
            [c \in SeqToSet(cols) |->
                IF InSeq(c, on)
                THEN IF i # 0 THEN left.rows[i][c] ELSE right.rows[j][c]
                ELSE IF \E k \in 1..Len(left.cols) : LName(left.cols[k]) = c
                THEN IF i # 0
                     THEN left.rows[i][CHOOSE x \in SeqToSet(left.cols) : LName(x) = c]
                     ELSE Null
                ELSE IF j # 0
                     THEN right.rows[j][CHOOSE x \in SeqToSet(rcols) : RName(x) = c]
                     ELSE Null]
        leftRows(keepUnmatched) ==
            ConcatMap(Idx(NRows(left)),
                      LAMBDA i :
                          LET m == FilterIdx(Idx(NRows(right)), LAMBDA j : match(i, j), 1)
                          IN IF Len(m) = 0
                             THEN IF keepUnmatched THEN <<Row(i, 0)>> ELSE <<>>
                             ELSE [k \in 1..Len(m) |-> Row(i, m[k])],
                      1)
        rightRows(onlyUnmatched) ==
            ConcatMap(Idx(NRows(right)),
                      LAMBDA j :
                          LET m == FilterIdx(Idx(NRows(left)), LAMBDA i : match(i, j), 1)
                          IN IF Len(m) = 0 THEN <<Row(0, j)>>
                             ELSE IF onlyUnmatched THEN <<>>
                             ELSE [k \in 1..Len(m) |-> Row(m[k], j)],
                      1)
        KeyOfRow(r) == [k \in 1..Len(on) |-> r[on[k]]]
    IN [cols |-> cols,
        rows |-> CASE how = "left" -> leftRows(TRUE)
                   [] how = "inner" -> leftRows(FALSE)
                   [] how = "right" -> rightRows(FALSE)
                   [] how = "outer" ->
                        SortByKey(KeyOfRow, leftRows(TRUE) \o rightRows(TRUE))]

\* The join stage without the test of line 231: a name the registry does
\* not hold leaves `out` as it is.
JoinStageLenient(ts, recipe, aux_dfs) ==
    LET j == Get(recipe, "join")
        right_name == Get(j, "right_df")
        on == Get(j, "on")
        how == GetOr(j, "how", "left")
    IN IF ~aux_dfs.given \/ ~Has(aux_dfs.d, right_name)
       THEN ts
       ELSE LET right == ts.heap[Get(aux_dfs.d, right_name)]
            IN IF \E k \in 1..Len(on) : ~HasCol(Out(ts), on[k]) \/ ~HasCol(right, on[k])
               THEN Raise(ts, "KeyError")
               ELSE IF how \notin MergeHows THEN Raise(ts, "MergeError")
               ELSE Alloc(ts, Merge(Out(ts), right, on, how))

\* The join stage.  aux_dfs is [given, d]: whether the argument is a dict
\* (not None), and the dict from name to object.
JoinStage(ts, recipe, aux_dfs) ==
    LET j == Get(recipe, "join")
        right_name == Get(j, "right_df")
        on == Get(j, "on")
        how == GetOr(j, "how", "left")
    IN IF ~aux_dfs.given \/ ~Has(aux_dfs.d, right_name)
       THEN Raise(ts, "MissingAuxiliary")
       ELSE LET right == ts.heap[Get(aux_dfs.d, right_name)]
            IN IF \E k \in 1..Len(on) : ~HasCol(Out(ts), on[k]) \/ ~HasCol(right, on[k])
               THEN Raise(ts, "KeyError")
               ELSE IF how \notin MergeHows THEN Raise(ts, "MergeError")
               ELSE Alloc(ts, Merge(Out(ts), right, on, how))

\* One aggregate over the cells of a group.  NaN is skipped.  The model
\* computes these functions of pandas (pandas knows more: median, std, ...;
\* the recipes of the model use none of them); every other name makes agg
\* raise.  mean is kept as a ratio when it is no integer.
AggFunctions == {"sum", "mean", "count", "min", "max", "first", "last"}

RECURSIVE Extreme(_, _)
Extreme(vals, wantMax) ==
    IF Len(vals) = 1 THEN vals[1]
    ELSE LET rest == Extreme(Tail(vals), wantMax)
         IN IF wantMax
            THEN IF CellLess(Head(vals), rest) THEN rest ELSE Head(vals)
            ELSE IF CellLess(rest, Head(vals)) THEN rest ELSE Head(vals)

Aggregate(fn, vals) ==
    LET present == FilterIdx(vals, LAMBDA i : vals[i] # Null, 1)
        n == Len(present)
        total == SumNums(present)
        numeric == \A i \in 1..n : present[i].t = "num"
    IN CASE fn = "count" -> Num(n)
         [] fn = "sum" -> IF numeric THEN Num(total) ELSE CellErr   \* text: outside the model
         [] fn = "mean" ->
                IF ~numeric THEN CellErr
                ELSE IF n = 0 THEN Null
                ELSE IF total >= 0 /\ (total % n) = 0 THEN Num(total \div n)
                ELSE [t |-> "ratio", n |-> total, d |-> n]
         [] fn = "min" -> IF n = 0 THEN Null ELSE Extreme(present, FALSE)
         [] fn = "max" -> IF n = 0 THEN Null ELSE Extreme(present, TRUE)
         [] fn = "first" -> IF n = 0 THEN Null ELSE present[1]
         [] fn = "last" -> IF n = 0 THEN Null ELSE present[n]

\* df.groupby(by).agg(agg).reset_index() with the default dropna=True: the
\* rows with a NaN key are left out.
GroupByDropNa(df, by, agg) ==
    LET KeyAt(i) == [k \in 1..Len(by) |-> df.rows[i][by[k]]]
        firsts == FilterIdx(Idx(NRows(df)),
                            LAMBDA i : /\ \A j \in 1..(i - 1) : KeyAt(j) # KeyAt(i)
                                       /\ \A k \in 1..Len(by) : KeyAt(i)[k] # Null, 1)
        groups == SortByKey(KeyAt, firsts)
        cols == by \o Keys(agg)
        Members(g) == FilterIdx(Idx(NRows(df)), LAMBDA i : KeyAt(i) = KeyAt(g), 1)
        Cells(g, c) == [m \in 1..Len(Members(g)) |-> df.rows[Members(g)[m]][c]]
    IN [cols |-> cols,
        rows |-> [n \in 1..Len(groups) |->
                    [c \in SeqToSet(cols) |->
                        IF InSeq(c, by) THEN df.rows[groups[n]][c]
                        ELSE Aggregate(Get(agg, c), Cells(groups[n], c))]]]

\* df.groupby(by, dropna=False).agg(agg).reset_index(): one row per key
\* tuple, NaN keys included, sorted by key; the key columns, then one column
\* per entry of agg.
GroupBy(df, by, agg) ==
    LET KeyAt(i) == [k \in 1..Len(by) |-> df.rows[i][by[k]]]
        firsts == FilterIdx(Idx(NRows(df)),
                            LAMBDA i : \A j \in 1..(i - 1) : KeyAt(j) # KeyAt(i), 1)
        groups == SortByKey(KeyAt, firsts)
        cols == by \o Keys(agg)
        Members(g) == FilterIdx(Idx(NRows(df)), LAMBDA i : KeyAt(i) = KeyAt(g), 1)
        Cells(g, c) == [m \in 1..Len(Members(g)) |-> df.rows[Members(g)[m]][c]]
    IN [cols |-> cols,
        rows |-> [n \in 1..Len(groups) |->
                    [c \in SeqToSet(cols) |->
                        IF InSeq(c, by) THEN df.rows[groups[n]][c]
                        ELSE Aggregate(Get(agg, c), Cells(groups[n], c))]]]

\* An aggregate that cannot be computed raises; else the result is bound.
Grouped(ts, res) ==
    IF \E i \in 1..NRows(res) : \E c \in SeqToSet(res.cols) : res.rows[i][c].t = "err"
    THEN Raise(ts, "TypeError")
    ELSE Alloc(ts, res)

\* The groupby stage.
GroupbyStage(ts, recipe) ==
    LET g == Get(recipe, "groupby")
        by == Get(g, "by")
        agg == Get(g, "agg")
    IN IF \E k \in 1..Len(by) : ~HasCol(Out(ts), by[k]) THEN Raise(ts, "KeyError")
       ELSE IF \E k \in 1..Len(agg) : ~HasCol(Out(ts), agg[k][1]) THEN Raise(ts, "KeyError")
       ELSE IF \E k \in 1..Len(agg) : agg[k][2] \notin AggFunctions
       THEN Raise(ts, "AttributeError")
       ELSE IF \E k \in 1..Len(agg) : InSeq(agg[k][1], by) THEN Raise(ts, "ValueError")
       ELSE Grouped(ts, GroupBy(Out(ts), by, agg))

\* The stages in the order of the if-blocks of transform.
StageOrder == <<"select", "filter", "derive", "join", "groupby">>

\* The test of a stage that also asks for content: an empty list under
\* select or derive is skipped as an empty filter text is.
StagePresentNonEmpty(recipe, stage) ==
    /\ Has(recipe, stage)
    /\ IF stage = "filter" THEN Get(recipe, "filter") # ""
       ELSE Get(recipe, stage) # <<>>

\* The condition of a stage's if-block: the key is in the recipe (and, for
\* the filter, its text is not empty).
StagePresent(recipe, stage) ==
    /\ Has(recipe, stage)
    /\ stage = "filter" => Get(recipe, "filter") # ""

\* The stages one call applies, in the order it applies them.
StagesAsDeclared(recipe) ==
    FilterIdx(Keys(recipe),
              LAMBDA i : InSeq(Keys(recipe)[i], StageOrder)
                         /\ StagePresent(recipe, Keys(recipe)[i]), 1)

StagesToRun(recipe) ==
    FilterIdx(StageOrder, LAMBDA i : StagePresent(recipe, StageOrder[i]), 1)

\* The assignment `out = ...` that ends a stage that did not raise.
Bound(ts) == IF ts.raised # "" THEN ts ELSE [ts EXCEPT !.outs = Append(ts.outs, ts.out)]

\* The body of one if-block.
StageBody(stage, at, recipe, aux_dfs) ==
    CASE stage = "select" -> SelectStage(at, recipe)
      [] stage = "filter" -> FilterStage(at, recipe)
      [] stage = "derive" -> DeriveStage(at, recipe)
      [] stage = "join" -> JoinStage(at, recipe, aux_dfs)
      [] stage = "groupby" -> GroupbyStage(at, recipe)

ApplyStage(stage, ts, recipe, aux_dfs) ==
    Bound(StageBody(stage,
                    [ts EXCEPT !.stages = Append(ts.stages, stage),
                               !.ins = Append(ts.ins, ts.out)],
                    recipe, aux_dfs))

\* The state of a call at its entry: `out` is not bound yet; heap[DfId] is
\* the caller's frame.
TransformEntry(heap) ==
    [heap |-> heap, out |-> DfId, raised |-> "", stages |-> <<>>, ins |-> <<>>,
     outs |-> <<>>, evals |-> <<>>]

RECURSIVE RunStages(_, _, _, _, _)
RunStages(ts, recipe, aux_dfs, todo, i) ==
    IF i > Len(todo) \/ ts.raised # "" THEN ts
    ELSE RunStages(ApplyStage(todo[i], ts, recipe, aux_dfs), recipe, aux_dfs, todo, i + 1)

\* transform(df, recipe, aux_dfs) as one call: the final state.  The value
\* returned is Out(.) when .raised = "".
transform(heap, recipe, aux_dfs) ==
    RunStages(DfCopy(TransformEntry(heap)), recipe, aux_dfs, StagesToRun(recipe), 1)

\* ------------------------------------------------------------------------
\* Paths and files.  A path is [dir, name, ext]; the directory ".." lies
\* outside SAFE_ROOT.  NonePath is None, EmptyPath the empty string.
\* ------------------------------------------------------------------------
Path(dir, name, ext) == [dir |-> dir, name |-> name, ext |-> ext]
NonePath == [none |-> TRUE]
EmptyPath == Path("", "", "")

\* `if path:`
TruthyPath(path) == path # NonePath /\ path # EmptyPath

\* memory.py safe_path: the ValueError (outside the root) or TypeError
\* (None) it raises, or "".
safe_path_raises(path) ==
    IF path = NonePath THEN "TypeError"
    ELSE IF path.dir = ".." THEN "ValueError"
    ELSE ""

\* core.py load_df(path) on the files fs: the exception raised, or "".
load_df_raises(fs, path) ==
    IF safe_path_raises(path) # "" THEN safe_path_raises(path)
    ELSE IF path.ext \notin {"csv", "parquet"} THEN "ValueError"
    ELSE IF ~Has(fs, path) THEN "FileNotFoundError"
    ELSE ""

load_df(fs, path) == Get(fs, path)

\* core.py save_df(df, out_path): the exception raised, or "".
save_df_raises(out_path) ==
    IF safe_path_raises(out_path) # "" THEN safe_path_raises(out_path)
    ELSE IF out_path.ext \notin {"csv", "parquet"} THEN "ValueError"
    ELSE ""

\* ------------------------------------------------------------------------
\* memory.py: the run history
\* ------------------------------------------------------------------------
NoFile == [none |-> TRUE]

DefaultMemory == [preferences |-> [report_dir |-> "reports"], runs |-> <<>>]

\* load_memory(): the content of agent_memory.json, or the default.
load_memory(file) == IF file = NoFile THEN DefaultMemory ELSE file

\* ------------------------------------------------------------------------
\* orchestrator.py: plan, reflect
\* ------------------------------------------------------------------------
DefaultTitle == "DataOps Agent Run"

\* plan with `if "recipe" in inputs` / `if "dq_rules" in inputs` in place of
\* the truth tests.
planKeyPresence(goal, inputs) ==
    LET sales == GetOr(inputs, "sales_path", NonePath)
        regions == GetOr(inputs, "regions_path", NonePath)
        out_path == GetOr(inputs, "out_path", NonePath)
        rules == GetOr(inputs, "dq_rules", EmptyDict)
        recipe == GetOr(inputs, "recipe", EmptyDict)
        title == GetOr(inputs, "report_title", DefaultTitle)
    IN <<[op |-> "load_sales", path |-> sales]>>
       \o (IF TruthyPath(regions) THEN <<[op |-> "load_regions", path |-> regions]>> ELSE <<>>)
       \o <<[op |-> "profile_input"]>>
       \o (IF Has(inputs, "recipe") THEN <<[op |-> "transform", recipe |-> recipe]>> ELSE <<>>)
       \o (IF Has(inputs, "dq_rules") THEN <<[op |-> "dq_check", rules |-> rules]>> ELSE <<>>)
       \o (IF TruthyPath(out_path) THEN <<[op |-> "save", path |-> out_path]>> ELSE <<>>)
       \o <<[op |-> "profile_output"]>>
       \o <<[op |-> "report", title |-> title]>>

plan(goal, inputs) ==
    LET sales == GetOr(inputs, "sales_path", NonePath)
        regions == GetOr(inputs, "regions_path", NonePath)
        out_path == GetOr(inputs, "out_path", NonePath)
        rules == GetOr(inputs, "dq_rules", EmptyDict)
        recipe == GetOr(inputs, "recipe", EmptyDict)
        title == GetOr(inputs, "report_title", DefaultTitle)
    IN <<[op |-> "load_sales", path |-> sales]>>
       \o (IF TruthyPath(regions) THEN <<[op |-> "load_regions", path |-> regions]>> ELSE <<>>)
       \o <<[op |-> "profile_input"]>>
       \o (IF Len(recipe) > 0 THEN <<[op |-> "transform", recipe |-> recipe]>> ELSE <<>>)
       \o (IF Len(rules) > 0 THEN <<[op |-> "dq_check", rules |-> rules]>> ELSE <<>>)
       \o (IF TruthyPath(out_path) THEN <<[op |-> "save", path |-> out_path]>> ELSE <<>>)
       \o <<[op |-> "profile_output"]>>
       \o <<[op |-> "report", title |-> title]>>

\* run_log.get("output_profile", {}).get("rows", 0)
OutputRows(run_log) ==
    IF Has(run_log, "output_profile") THEN Get(run_log, "output_profile").rows ELSE 0

\* reflect without the test of dq_requested.
reflectUnrequested(run_log) ==
    LET issues ==
            (IF ~GetOr(run_log, "dq_ok", FALSE)
             THEN <<"DQ checks failed.">> ELSE <<>>)
            \o (IF GetOr(run_log, "saved", FALSE) /\ OutputRows(run_log) = 0
                THEN <<"Output has zero rows.">> ELSE <<>>)
    IN [ok |-> Len(issues) = 0, issues |-> issues]

reflect(run_log) ==
    LET dq_req == GetOr(run_log, "dq_requested", FALSE)
        issues ==
            (IF dq_req /\ ~GetOr(run_log, "dq_ok", FALSE)
             THEN <<"DQ checks failed.">> ELSE <<>>)
            \o (IF GetOr(run_log, "saved", FALSE) /\ OutputRows(run_log) = 0
                THEN <<"Output has zero rows.">> ELSE <<>>)
    IN [ok |-> Len(issues) = 0, issues |-> issues]

\* ------------------------------------------------------------------------
\* The data of the model: files, recipes, rulesets
\* ------------------------------------------------------------------------
SalesCols == <<"order_id", "date", "region", "revenue">>

SalesRow(id, date, region, revenue) ==
    [order_id |-> id, date |-> date, region |-> region, revenue |-> revenue]

SalesTable ==
    [cols |-> SalesCols,
     rows |-> <<SalesRow(Num(1), Str("2025-01-01 09:30"), Str("APAC"), Num(1000)),
                SalesRow(Num(2), Str("2025-01-01"), Str("EMEA"), Num(800)),
                SalesRow(Num(3), Str("2025-01-01"), Str("APAC"), Num(1200))>>]

\* a duplicate order_id, a negative revenue, a region outside the domain,
\* and a row whose region is missing
DirtyTable ==
    [cols |-> SalesCols,
     rows |-> <<SalesRow(Num(1), Str("2025-01-01"), Str("APAC"), Num(100)),
                SalesRow(Num(1), Str("2025-01-02"), Str("BAD"), Num(0 - 5)),
                SalesRow(Num(2), Str("2025-01-02"), Null, Num(300))>>]

EmptyTable == [cols |-> SalesCols, rows |-> <<>>]

\* The five orders of test_transform_full.
ScenarioCols == SalesCols \o <<"product_id">>

ScenarioRow(id, date, region, revenue, product) ==
    [order_id |-> Num(id), date |-> Str(date), region |-> Str(region),
     revenue |-> Num(revenue), product_id |-> Str(product)]

ScenarioTable ==
    [cols |-> ScenarioCols,
     rows |-> <<ScenarioRow(1, "2025-01-01", "APAC", 1000, "P1"),
                ScenarioRow(2, "2025-01-01", "EMEA", 800, "P2"),
                ScenarioRow(3, "2025-01-02", "APAC", 1200, "P1"),
                ScenarioRow(4, "2025-01-02", "AMER", 700, "P3"),
                ScenarioRow(5, "2025-01-02", "APAC", 900, "P2")>>]

RegionsTable ==
    [cols |-> <<"region", "region_name">>,
     rows |-> <<[region |-> Str("APAC"), region_name |-> Str("Asia Pacific")],
                [region |-> Str("EMEA"), region_name |-> Str("Europe")],
                [region |-> Str("AMER"), region_name |-> Str("Americas")]>>]

SalesCsv == Path("data", "sales", "csv")
DirtyCsv == Path("data", "dirty", "csv")
EmptyCsv == Path("data", "empty", "csv")
RegionsCsv == Path("data", "regions", "csv")
NoSuchCsv == Path("data", "nofile", "csv")
OutCsv == Path("clean", "out", "csv")
OutTxt == Path("clean", "out", "txt")

\* The data files present when a process starts.
InitialFiles ==
    << <<SalesCsv, SalesTable>>, <<DirtyCsv, DirtyTable>>,
       <<EmptyCsv, EmptyTable>>, <<RegionsCsv, RegionsTable>> >>

Derive(name, expr) == << <<"name", name>>, <<"expr", expr>> >>

JoinOn(right_df, how) ==
    << <<"right_df", right_df>>, <<"on", <<"region">> >>, <<"how", how>> >>

\* the recipe of tests/test_transform.py, on the columns of SalesTable
RecipeFull ==
    << <<"select", SalesCols>>,
       <<"filter", "region in ['APAC','EMEA','AMER'] and revenue >= 0">>,
       <<"derive", <<Derive("date_day", "pd.to_datetime(df['date']).dt.date.astype(str)"),
                     Derive("rev_in_k", "df['revenue'] / 1000")>> >>,
       <<"join", JoinOn("regions", "left")>>,
       <<"groupby", << <<"by", <<"date_day", "region", "region_name">> >>,
                       <<"agg", << <<"revenue", "sum">> >> >> >> >> >>

\* The recipe of test_transform_full.
RecipeScenario == [RecipeFull EXCEPT ![1] = <<"select", ScenarioCols>>]

RecipeNoRows == << <<"filter", "revenue > 5000">> >>
RecipeBadColumn == << <<"select", <<"order_id", "nosuch">> >> >>
RecipeOtherAux == << <<"join", JoinOn("customers", "inner")>> >>

RulesStd ==
    << <<"non_null", <<"region", "revenue">> >>,
       <<"unique", <<"order_id">> >>,
       <<"range", << <<"revenue", << <<"min", 0>> >> >> >> >>,
       <<"allowed_values",
         << <<"region", <<Str("APAC"), Str("EMEA"), Str("AMER")>> >> >> >> >>

\* a rule on a column no table has
RulesNoColumn == << <<"non_null", <<"customer_id">> >> >>

\* rules of every category, the first of each on a column no table has
RulesMixed ==
    << <<"non_null", <<"customer_id", "region">> >>,
       <<"unique", <<"customer_id", "order_id">> >>,
       <<"range", << <<"customer_id", << <<"min", 0>> >> >>,
                     <<"revenue", << <<"min", 0>>, <<"max", 1000>> >> >> >> >>,
       <<"allowed_values",
         << <<"customer_id", <<Num(1)>> >>,
            <<"region", <<Str("APAC"), Str("EMEA"), Str("AMER")>> >> >> >> >>

\* the categories declared in the opposite order, the bounds of the range
\* rule too; values that occur several times fall under every rule
RulesCounts ==
    << <<"allowed_values", << <<"region", <<Str("EMEA")>> >> >> >>,
       <<"range", << <<"revenue", << <<"max", 200>>, <<"min", 0>> >> >>,
                     <<"order_id", << <<"min", 2>> >> >> >> >>,
       <<"unique", <<"region", "date">> >>,
       <<"non_null", <<"revenue", "region">> >> >>

\* a range rule on a text column: dq_check raises
RulesText == << <<"range", << <<"region", << <<"min", 0>> >> >> >> >> >>

\* ------------------------------------------------------------------------
\* State
\* ------------------------------------------------------------------------
VARIABLES
    fs,         \* the data files: dict from path to frame
    memfile,    \* agent_memory.json: NoFile or the persisted memory
    reports,    \* the report files written: dict from report path to content
    clock,      \* datetime.now(), read as a counter
    MEM,        \* per process: the module global MEM of memory.py
    run,        \* per process: the locals of its run_agent call
    tr,         \* one call of transform, stage by stage
    sb,         \* one call of safe_eval, step by step
    dq,         \* the calls of dq_check on one table, loop by loop
    job         \* one call of generate_databricks_job, step by step

vars == <<fs, memfile, reports, clock, MEM, run, tr, sb, dq, job>>

Procs == {"A", "B"}

\* The calls of run_agent one process makes.
MaxRuns == 1

\* The entries the history file may hold when a process starts.
MaxHistory == 1

IdleRun ==
    [pc |-> "off", goal |-> "", inputs |-> EmptyDict, steps |-> <<>>, i |-> 0,
     log |-> EmptyDict,
     sales_df |-> NoneDf, regions_df |-> NoneDf, output_df |-> NoneDf,
     err |-> "", nruns |-> 0]

\* No call of transform yet.
\*   given  the heap at the call: the caller's frame and the auxiliary frames
\*   todo   the stages the call applies; i the next of them
IdleTr ==
    [pc |-> "idle", recipe |-> EmptyDict, aux_dfs |-> [given |-> FALSE, d |-> EmptyDict],
     given |-> <<>>, ts |-> TransformEntry(<<>>), todo |-> <<>>, i |-> 0]

\* No call of safe_eval yet.
\*   node     the parsed tree (SyntaxErrorTree until parsed)
\*   todo     the nodes the visitor has still to visit, the next one first
\*   visited  the nodes whose visit_* method returned, in order
\*   df, df0  the frame bound to `df`, now and at the call
\*   trace    the steps taken: "parse", "visit" per node, "eval"
IdleSb ==
    [pc |-> "idle", expr |-> "", safe_locals |-> EmptyDict, node |-> SyntaxErrorTree,
     todo |-> <<>>, visited |-> <<>>, raised |-> "", evaluated |-> FALSE,
     val |-> NoError, df |-> EmptyTable, df0 |-> EmptyTable, io |-> <<>>,
     trace |-> <<>>]

IdleDq ==
    [pc |-> "idle", df |-> EmptyTable, df0 |-> EmptyTable, rules |-> EmptyDict,
     issues |-> <<>>, raised |-> "", reports |-> <<>>]

\* No call of generate_databricks_job yet.
\*   recipe    what the generator returned
\*   review    the ReviewResult; reviewed: whether review_recipe was called
\*   script    the statements of the translated script (<<>> before)
\*   uploaded, submitted   whether the script was imported into the
\*             workspace, whether w.jobs.submit was called
\*   ret       the kind of the text the tool returns
IdleJob ==
    [pc |-> "idle", regions_path |-> "", recipe |-> <<>>, resp |-> [raises |-> FALSE, text |-> ""],
     reviewed |-> FALSE, review |-> [approved |-> [t |-> "null"], feedback |-> ""],
     script |-> <<>>, uploaded |-> FALSE, submitted |-> FALSE, ret |-> "", trace |-> <<>>]

\* An entry an earlier process left in the history.
EarlierEntry(n) ==
    [timestamp |-> 0 - n, goal |-> "earlier run", out_path |-> NonePath,
     report_path |-> [dir |-> "reports", ts |-> 0 - n, title |-> DefaultTitle],
     reflection_ok |-> TRUE]

\* The states agent_memory.json can be in at the start: absent, or written
\* by earlier runs (with the report directory of the preferences inside the
\* root or, edited by the user, outside it).
InitialMemfiles ==
    {NoFile}
    \cup {[preferences |-> [report_dir |-> d],
           runs |-> [k \in 1..n |-> EarlierEntry(n + 1 - k)]] :
            d \in {"reports", ".."}, n \in 0..MaxHistory}

\* ------------------------------------------------------------------------
\* orchestrator.py: run_agent, one action per step of the loop
\* ------------------------------------------------------------------------
Upd(p, r) == run' = [run EXCEPT ![p] = r]

AddSection(log, title, body) ==
    Put(log, "sections", Append(Get(log, "sections"), <<title, body>>))

Advance(r) == [r EXCEPT !.i = r.i + 1]

\* An exception caught and dropped inside the loop: the loop goes on.
Swallowed(r, e) == Advance(r)

\* An exception leaves run_agent: the call ends at step i.
Raised(r, e) == [r EXCEPT !.pc = "raised", !.err = e]

AtStep(p, op) ==
    /\ run[p].pc = "running"
    /\ run[p].i <= Len(run[p].steps)
    /\ run[p].steps[run[p].i].op = op

\* The steps after a transform still reading the primary table.
CurrentPrimary(r) == r.sales_df

\* `output_df if output_df is not None else sales_df`
Current(r) == IF r.output_df # NoneDf THEN r.output_df ELSE r.sales_df

\* A process starts: importing memory.py runs MEM = load_memory().
ProcStart(p) ==
    /\ run[p].pc = "off"
    /\ MEM' = [MEM EXCEPT ![p] = load_memory(memfile)]
    /\ Upd(p, [run[p] EXCEPT !.pc = "idle"])
    /\ UNCHANGED <<fs, memfile, reports, clock, tr, sb, dq, job>>

\* run_agent with dq_requested = `"dq_rules" in inputs`, without the truth
\* test of the ruleset.
CallRunAgentKeyOnly(p, goal, inputs) ==
    /\ run[p].pc \in {"idle", "returned", "raised"}
    /\ run[p].nruns < MaxRuns
    /\ LET steps == plan(goal, inputs)
       IN Upd(p, [pc |-> "running", goal |-> goal, inputs |-> inputs,
                  steps |-> steps, i |-> 1,
                  log |-> << <<"goal", goal>>, <<"steps", steps>>,
                             <<"dq_requested", Has(inputs, "dq_rules")>>,
                             <<"sections", <<>> >> >>,
                  sales_df |-> NoneDf, regions_df |-> NoneDf, output_df |-> NoneDf,
                  err |-> "", nruns |-> run[p].nruns + 1])
    /\ UNCHANGED <<fs, memfile, reports, clock, MEM, tr, sb, dq, job>>

\* run_agent(goal, inputs) is called: lines 62-72.
CallRunAgent(p, goal, inputs) ==
    /\ run[p].pc \in {"idle", "returned", "raised"}
    /\ run[p].nruns < MaxRuns
    /\ LET steps == plan(goal, inputs)
       IN Upd(p, [pc |-> "running", goal |-> goal, inputs |-> inputs,
                  steps |-> steps, i |-> 1,
                  log |-> << <<"goal", goal>>, <<"steps", steps>>,
                             <<"dq_requested",
                               Has(inputs, "dq_rules") /\ Len(Get(inputs, "dq_rules")) > 0>>,
                             <<"sections", <<>> >> >>,
                  sales_df |-> NoneDf, regions_df |-> NoneDf, output_df |-> NoneDf,
                  err |-> "", nruns |-> run[p].nruns + 1])
    /\ UNCHANGED <<fs, memfile, reports, clock, MEM, tr, sb, dq, job>>

DoLoadSales(p) ==
    /\ AtStep(p, "load_sales")
    /\ LET r == run[p]
           st == r.steps[r.i]
           e == load_df_raises(fs, st.path)
       IN IF e # "" THEN Upd(p, Raised(r, e))
          ELSE LET df == load_df(fs, st.path)
               IN Upd(p, Advance([r EXCEPT
                    !.sales_df = df,
                    !.log = AddSection(Put(r.log, "sales_path", st.path), "Loaded Sales",
                                       [rows |-> NRows(df), path |-> st.path])]))
    /\ UNCHANGED <<fs, memfile, reports, clock, MEM, tr, sb, dq, job>>

DoLoadRegions(p) ==
    /\ AtStep(p, "load_regions")
    /\ LET r == run[p]
           st == r.steps[r.i]
           e == load_df_raises(fs, st.path)
       IN IF e # "" THEN Upd(p, Raised(r, e))
          ELSE LET df == load_df(fs, st.path)
               IN Upd(p, Advance([r EXCEPT
                    !.regions_df = df,
                    !.log = AddSection(Put(r.log, "regions_path", st.path), "Loaded Regions",
                                       [rows |-> NRows(df), path |-> st.path])]))
    /\ UNCHANGED <<fs, memfile, reports, clock, MEM, tr, sb, dq, job>>

DoProfileInput(p) ==
    /\ AtStep(p, "profile_input")
    /\ LET r == run[p]
           prof == profile_df(r.sales_df)
       IN Upd(p, Advance([r EXCEPT
            !.log = AddSection(Put(r.log, "input_profile", prof), "Input Profile", prof)]))
    /\ UNCHANGED <<fs, memfile, reports, clock, MEM, tr, sb, dq, job>>

\* The registry holds the regions frame, when one was loaded, as object 2.
Transformed(r, res) ==
    LET st == r.steps[r.i]
        seen == [r EXCEPT !.sales_df = res.heap[DfId],
                          !.regions_df = IF r.regions_df # NoneDf THEN res.heap[2]
                                         ELSE NoneDf]
    IN IF res.raised # "" THEN Raised(seen, res.raised)
       ELSE Advance([seen EXCEPT
              !.output_df = Out(res),
              !.log = AddSection(Put(r.log, "transform_recipe", st.recipe),
                                 "Transform", "Applied recipe successfully.")])

\* The registry holding the loaded table under the name the join of the
\* recipe asks for.
RegistryAnyName(r) ==
    LET recipe == r.steps[r.i].recipe
        name == IF Has(recipe, "join") THEN Get(Get(recipe, "join"), "right_df")
                ELSE "regions"
    IN [given |-> TRUE,
        d |-> IF r.regions_df # NoneDf THEN << <<name, 2>> >> ELSE EmptyDict]

\* Lines 92-94: aux = {}; aux["regions"] = regions_df when one is loaded.
\* The loaded table is object 2 of the heap of the call.
Registry(r) ==
    [given |-> TRUE,
     d |-> IF r.regions_df # NoneDf THEN << <<"regions", 2>> >> ELSE EmptyDict]

\* Line 95: transform(sales_df, st["recipe"], aux).
CallTransform(r) ==
    LET loaded == r.regions_df # NoneDf
        heap == <<r.sales_df>> \o (IF loaded THEN <<r.regions_df>> ELSE <<>>)
    IN transform(heap, r.steps[r.i].recipe, Registry(r))

DoTransform(p) ==
    /\ AtStep(p, "transform")
    /\ Upd(p, Transformed(run[p], CallTransform(run[p])))
    /\ UNCHANGED <<fs, memfile, reports, clock, MEM, tr, sb, dq, job>>

\* The dq_check step raising when the check does not pass.
DoDqCheckFatal(p) ==
    /\ AtStep(p, "dq_check")
    /\ LET r == run[p]
           st == r.steps[r.i]
           res == dq_check(Current(r), st.rules)
       IN IF res.raised # "" THEN Upd(p, Raised(r, res.raised))
          ELSE IF ~res.ok THEN Upd(p, Raised(r, "ValueError"))
          ELSE Upd(p, Advance([r EXCEPT
                 !.log = AddSection(Put(Put(r.log, "dq_ok", res.ok), "dq_issues", res.issues),
                                    "Data Quality", [ok |-> res.ok, issues |-> res.issues])]))
    /\ UNCHANGED <<fs, memfile, reports, clock, MEM, tr, sb, dq, job>>

DoDqCheck(p) ==
    /\ AtStep(p, "dq_check")
    /\ LET r == run[p]
           st == r.steps[r.i]
           res == dq_check(Current(r), st.rules)
       IN IF res.raised # "" THEN Upd(p, Raised(r, res.raised))
          ELSE Upd(p, Advance([r EXCEPT
                 !.log = AddSection(Put(Put(r.log, "dq_ok", res.ok), "dq_issues", res.issues),
                                    "Data Quality", [ok |-> res.ok, issues |-> res.issues])]))
    /\ UNCHANGED <<fs, memfile, reports, clock, MEM, tr, sb, dq, job>>

DoSave(p) ==
    /\ AtStep(p, "save")
    /\ LET r == run[p]
           st == r.steps[r.i]
           e == save_df_raises(st.path)
       IN IF e # "" THEN Upd(p, Raised(r, e)) /\ fs' = fs
          ELSE /\ fs' = Put(fs, st.path, Current(r))
               /\ Upd(p, Advance([r EXCEPT
                    !.log = AddSection(Put(Put(r.log, "saved", TRUE), "out_path", st.path),
                                       "Save", st.path)]))
    /\ UNCHANGED <<memfile, reports, clock, MEM, tr, sb, dq, job>>

DoProfileOutput(p) ==
    /\ AtStep(p, "profile_output")
    /\ LET r == run[p]
           prof == profile_df(Current(r))
       IN Upd(p, Advance([r EXCEPT
            !.log = AddSection(Put(r.log, "output_profile", prof), "Output Profile", prof)]))
    /\ UNCHANGED <<fs, memfile, reports, clock, MEM, tr, sb, dq, job>>

\* write_report: the path of the file, named after the time and the title.
ReportPath(dir, now, title) == [dir |-> dir, ts |-> now, title |-> title]

DoReport(p) ==
    /\ AtStep(p, "report")
    /\ LET r == run[p]
           st == r.steps[r.i]
           v == reflect(r.log)
           log1 == AddSection(Put(Put(r.log, "reflection_ok", v.ok),
                                  "reflection_issues", v.issues),
                              "Reflection", [pass |-> v.ok, issues |-> v.issues])
           rpt_dir == MEM[p].preferences.report_dir
           rpt_path == ReportPath(rpt_dir, clock, st.title)
       IN IF rpt_dir = ".."      \* safe_path(rpt_dir) raises
          THEN /\ Upd(p, Raised([r EXCEPT !.log = log1], "ValueError"))
               /\ UNCHANGED <<reports, clock>>
          ELSE /\ reports' = Put(reports, rpt_path,
                                 [title |-> st.title, sections |-> Get(log1, "sections")])
               /\ clock' = clock + 1
               /\ Upd(p, Advance([r EXCEPT !.log = Put(log1, "report_path", rpt_path)]))
    /\ UNCHANGED <<fs, memfile, MEM, tr, sb, dq, job>>

\* The entry run_agent appends to MEM["runs"].
RunEntry(goal, log, now) ==
    [timestamp |-> now, goal |-> goal,
     out_path |-> GetOr(log, "out_path", NonePath),
     report_path |-> GetOr(log, "report_path", NonePath),
     reflection_ok |-> GetOr(log, "reflection_ok", FALSE)]

\* MEM["runs"] = [entry]
AppendRunFresh(mem, entry) == [mem EXCEPT !.runs = <<entry>>]

\* MEM["runs"].append(entry)
AppendRun(mem, entry) == [mem EXCEPT !.runs = Append(mem.runs, entry)]

\* memory.py save_memory(mem): the content of agent_memory.json afterwards
\* (json.dump of strings, booleans, None and lists of them; json.load gives
\* the same values back).
save_memory(mem) == mem

\* The append made on the stored history, read again before the write.
FinishOnStored(p) ==
    /\ run[p].pc = "running"
    /\ run[p].i > Len(run[p].steps)
    /\ LET mem == AppendRun(load_memory(memfile), RunEntry(run[p].goal, run[p].log, clock))
       IN /\ MEM' = [MEM EXCEPT ![p] = mem]
          /\ memfile' = save_memory(mem)
    /\ clock' = clock + 1
    /\ Upd(p, [run[p] EXCEPT !.pc = "returned"])
    /\ UNCHANGED <<fs, reports, tr, sb, dq, job>>

\* After the loop (lines 129-139): append the entry, save_memory(MEM),
\* return the log.
Finish(p) ==
    /\ run[p].pc = "running"
    /\ run[p].i > Len(run[p].steps)
    /\ LET mem == AppendRun(MEM[p], RunEntry(run[p].goal, run[p].log, clock))
       IN /\ MEM' = [MEM EXCEPT ![p] = mem]
          /\ memfile' = save_memory(mem)
    /\ clock' = clock + 1
    /\ Upd(p, [run[p] EXCEPT !.pc = "returned"])
    /\ UNCHANGED <<fs, reports, tr, sb, dq, job>>

\* ------------------------------------------------------------------------
\* The inputs of run_agent the model draws from
\* ------------------------------------------------------------------------
Goals == {"clean daily revenue"}

SalesPaths == {SalesCsv, DirtyCsv, NoSuchCsv}
RegionsPaths == {NonePath, EmptyPath, RegionsCsv}
OutPaths == {NonePath, OutCsv, OutTxt}

\* A key of the inputs that may be absent: [present, v].
Absent == [present |-> FALSE, v |-> EmptyDict]
Given(v) == [present |-> TRUE, v |-> v]

RecipeChoices ==
    <<Absent, Given(EmptyDict), Given(RecipeFull), Given(RecipeNoRows),
      Given(RecipeBadColumn), Given(RecipeOtherAux)>>

RulesChoices ==
    <<Absent, Given(EmptyDict), Given(RulesStd), Given(RulesText), Given(RulesNoColumn)>>

MakeInputs(sales, regions, recipe, rules, out_path) ==
    << <<"sales_path", sales>>, <<"regions_path", regions>>, <<"out_path", out_path>> >>
    \o (IF recipe.present THEN << <<"recipe", recipe.v>> >> ELSE <<>>)
    \o (IF rules.present THEN << <<"dq_rules", rules.v>> >> ELSE <<>>)

\* Some caller calls run_agent.
SomeCall(p) ==
    \E goal \in Goals, sales \in SalesPaths, regions \in RegionsPaths,
       out_path \in OutPaths,
       rc \in 1..Len(RecipeChoices), ru \in 1..Len(RulesChoices) :
        CallRunAgent(p, goal, MakeInputs(sales, regions, RecipeChoices[rc],
                                          RulesChoices[ru], out_path))

\* ------------------------------------------------------------------------
\* Spec: one process and its runs
\* ------------------------------------------------------------------------
Init ==
    /\ fs = InitialFiles
    /\ memfile \in InitialMemfiles
    /\ reports = EmptyDict
    /\ clock = 1
    /\ MEM = [p \in Procs |-> NoFile]
    /\ run = [p \in Procs |-> IdleRun]
    /\ tr = IdleTr
    /\ sb = IdleSb
    /\ dq = IdleDq
    /\ job = IdleJob

ProcNext(p) ==
    \/ ProcStart(p)
    \/ SomeCall(p)
    \/ DoLoadSales(p)
    \/ DoLoadRegions(p)
    \/ DoProfileInput(p)
    \/ DoTransform(p)
    \/ DoDqCheck(p)
    \/ DoSave(p)
    \/ DoProfileOutput(p)
    \/ DoReport(p)
    \/ Finish(p)

Next == ProcNext("A")

Spec == Init /\ [][Next]_vars

\* ------------------------------------------------------------------------
\* Two processes on one agent_memory.json.  Each imports memory.py once
\* (ProcStart) and calls run_agent on the sales file; json.dump into the
\* file is taken as one step.
\* ------------------------------------------------------------------------
GoalOf == [p \in Procs |-> IF p = "A" THEN "clean daily revenue" ELSE "weekly revenue"]

CallOf(p) ==
    \E ru \in {1, 3}, out_path \in {NonePath, OutCsv} :
        CallRunAgent(p, GoalOf[p],
                     MakeInputs(SalesCsv, NonePath, Absent, RulesChoices[ru], out_path))

\* The caller lets no two runs overlap.
SerialCall(p) ==
    /\ \A q \in Procs \ {p} : run[q].pc # "running"
    /\ CallOf(p)

InitProcs ==
    /\ fs = InitialFiles
    /\ memfile \in {NoFile, [preferences |-> [report_dir |-> "reports"],
                               runs |-> <<EarlierEntry(1)>>]}
    /\ reports = EmptyDict
    /\ clock = 1
    /\ MEM = [p \in Procs |-> NoFile]
    /\ run = [p \in Procs |-> IdleRun]
    /\ tr = IdleTr
    /\ sb = IdleSb
    /\ dq = IdleDq
    /\ job = IdleJob

NextConcurrent ==
    \/ \E p \in Procs : ProcStart(p)
    \/ \E p \in Procs : CallOf(p)
    \/ \E p \in Procs : DoLoadSales(p)
    \/ \E p \in Procs : DoProfileInput(p)
    \/ \E p \in Procs : DoDqCheck(p)
    \/ \E p \in Procs : DoSave(p)
    \/ \E p \in Procs : DoProfileOutput(p)
    \/ \E p \in Procs : DoReport(p)
    \/ \E p \in Procs : Finish(p)

SpecConcurrent == InitProcs /\ [][NextConcurrent]_vars

NextSerial ==
    \/ \E p \in Procs : ProcStart(p)
    \/ \E p \in Procs : SerialCall(p)
    \/ \E p \in Procs : DoLoadSales(p)
    \/ \E p \in Procs : DoProfileInput(p)
    \/ \E p \in Procs : DoDqCheck(p)
    \/ \E p \in Procs : DoSave(p)
    \/ \E p \in Procs : DoProfileOutput(p)
    \/ \E p \in Procs : DoReport(p)
    \/ \E p \in Procs : Finish(p)

SpecSerial == InitProcs /\ [][NextSerial]_vars

\* ------------------------------------------------------------------------
\* core.py: one call of safe_eval, step by step (lines 196-207)
\* ------------------------------------------------------------------------
\* The expression texts of derive items.
SbExprs ==
    {"df['revenue'] * 2", "df['revenue'] / 1000", "abs(df['revenue'])",
     "pd.to_datetime(df['date']).dt.date.astype(str)", "df['rev2'] + 1",
     "df.pop('revenue')", "df.to_csv('data/leak.csv')", "7", "foo(1)", "revenue", "abs(foo)", "foo.bar(df)",
     "df.__class__", "df._mgr", "lambda: 1", "[df for df in [1]]",
     "{df for df in [1]}", "{df: df for df in [1]}", "(df for df in [1])", "'a'.upper()", "(lambda: 1)()",
     "abs(df['revenue']) + foo(1)", "1 +", "import os"}

SbTables == {SalesTable, DirtyTable, EmptyTable}

\* transform calls safe_eval(d["expr"], safe_locals_base).
SbCall(expr, df) ==
    /\ sb.pc = "idle"
    /\ sb' = [IdleSb EXCEPT !.pc = "called", !.expr = expr,
                            !.safe_locals = safe_locals_base, !.df = df, !.df0 = df]
    /\ UNCHANGED <<fs, memfile, reports, clock, MEM, run, tr, dq, job>>

\* Lines 197-200: ast.parse.
Parsed(s, node) ==
    IF node = SyntaxErrorTree
    THEN [s EXCEPT !.pc = "raised", !.raised = "SyntaxError",
                   !.trace = Append(s.trace, "parse")]
    ELSE [s EXCEPT !.pc = "validate", !.node = node, !.todo = <<node>>,
                   !.trace = Append(s.trace, "parse")]

SbParse ==
    /\ sb.pc = "called"
    /\ sb' = Parsed(sb, Parse(sb.expr))
    /\ UNCHANGED <<fs, memfile, reports, clock, MEM, run, tr, dq, job>>

\* Lines 202-205: visitor.visit, one node at a time.  err is what the
\* node's visit_* method raises.
Visited(s, err) ==
    IF err # ""
    THEN [s EXCEPT !.pc = "raised", !.raised = err, !.trace = Append(s.trace, "visit")]
    ELSE [s EXCEPT !.todo = Children(Head(s.todo)) \o Tail(s.todo),
                   !.visited = Append(s.visited, Head(s.todo)),
                   !.trace = Append(s.trace, "visit")]

SbVisit ==
    /\ sb.pc = "validate"
    /\ sb.todo # <<>>
    /\ sb' = Visited(sb, VisitNode(Head(sb.todo), SeqToSet(Keys(sb.safe_locals)),
                                   SeqToSet(Keys(sb.safe_locals))))
    /\ UNCHANGED <<fs, memfile, reports, clock, MEM, run, tr, dq, job>>

\* Line 207: eval(compile(node, ...), {"__builtins__": {}}, safe_locals).
SbEvaluated(s, r) ==
    [s EXCEPT !.pc = IF IsErr(r.val) THEN "raised" ELSE "returned",
              !.raised = IF IsErr(r.val) THEN r.val.e ELSE "",
              !.evaluated = TRUE, !.val = r.val, !.df = r.df, !.io = r.io,
              !.trace = Append(s.trace, "eval")]

\* The files after the host calls io[i..] of an evaluation.
RECURSIVE HostAfter(_, _, _)
HostAfter(files, io, i) ==
    IF i > Len(io) THEN files
    ELSE HostAfter(IF io[i].op = "write" THEN Put(files, io[i].path, io[i].frame)
                   ELSE files,
                   io, i + 1)

SbEvalEarly ==
    /\ sb.pc = "validate"
    /\ sb' = SbEvaluated(sb, EvalR(sb.node, "python", sb.safe_locals, sb.df))
    /\ fs' = HostAfter(fs, sb'.io, 1)
    /\ UNCHANGED <<memfile, reports, clock, MEM, run, tr, dq, job>>

SbEval ==
    /\ sb.pc = "validate"
    /\ sb.todo = <<>>
    /\ sb' = SbEvaluated(sb, EvalR(sb.node, "python", sb.safe_locals, sb.df))
    /\ fs' = HostAfter(fs, sb'.io, 1)
    /\ UNCHANGED <<memfile, reports, clock, MEM, run, tr, dq, job>>

InitSandbox ==
    /\ fs = InitialFiles
    /\ memfile = NoFile
    /\ reports = EmptyDict
    /\ clock = 1
    /\ MEM = [p \in Procs |-> NoFile]
    /\ run = [p \in Procs |-> IdleRun]
    /\ tr = IdleTr
    /\ sb = IdleSb
    /\ dq = IdleDq
    /\ job = IdleJob

NextSandbox ==
    \/ \E expr \in SbExprs, df \in SbTables : SbCall(expr, df)
    \/ SbParse
    \/ SbVisit
    \/ SbEval

SpecSandbox == InitSandbox /\ [][NextSandbox]_vars

\* ------------------------------------------------------------------------
\* core.py: one call of transform, stage by stage (lines 134-239)
\* ------------------------------------------------------------------------
DeriveOnly(items) == << <<"derive", items>> >>

GroupbyRevenue(by, fn) ==
    <<"groupby", << <<"by", by>>, <<"agg", << <<"revenue", fn>> >> >> >> >>

\* Keys transform does not know.
RecipeUnknownKeys == << <<"sort", <<"revenue">> >>, <<"limit", 1>> >>

\* RecipeFull with its keys declared in the opposite order
RecipeReversed == [i \in 1..Len(RecipeFull) |-> RecipeFull[Len(RecipeFull) + 1 - i]]

\* The recipes of the calls: all stages in two declaration orders; single
\* stages that succeed and that fail; derive expressions that change the
\* frame bound to df, are rejected, or fail.
TrRecipes ==
    <<EmptyDict,
      RecipeFull,
      RecipeReversed,
      RecipeScenario,
      RecipeNoRows,
      RecipeBadColumn,
      RecipeOtherAux,
      << <<"join", JoinOn("regions", "outer")>>, <<"select", <<"region", "revenue">> >> >>,
      << GroupbyRevenue(<<"region">>, "sum"), <<"filter", "revenue >= 0">> >>,
      << GroupbyRevenue(<<"nosuch">>, "sum") >>,
      << GroupbyRevenue(<<"region">>, "median") >>,
      << <<"filter", "">>, <<"select", <<"order_id", "revenue">> >> >>,
      << <<"filter", "nosuch > 0">> >>,
      << <<"filter", "revenue + 1">> >>,
      << <<"filter", "revenue.__ge__(0)">> >>,
      DeriveOnly(<<Derive("r", "df.pop('revenue')")>>),
      DeriveOnly(<<Derive("r", "df.pop('revenue')"), Derive("x", "foo(1)")>>),
      DeriveOnly(<<Derive("r", "df.pop('revenue')"), Derive("x", "df['revenue'] * 2")>>),
      DeriveOnly(<<Derive("x", "1 +")>>),
      DeriveOnly(<<>>),
      << <<"select", <<>> >> >>,
      RecipeUnknownKeys,
      DeriveOnly(<<Derive("rev2", "df['revenue'] * 2"), Derive("x", "df['rev2'] + 1")>>),
      DeriveOnly(<<Derive("x", "df['rev2'] + 1"), Derive("rev2", "df['revenue'] * 2")>>),
      DeriveOnly(<<Derive("revenue", "abs(df['revenue'])"), Derive("seven", "7")>>),
      << <<"select", <<"revenue">> >>, <<"derive", <<Derive("s", "{df for df in [1]}")>> >> >> >>

\* The auxiliary registries of the calls: None, empty, holding the regions.
TrAux ==
    <<[given |-> FALSE, frames |-> <<>>, d |-> EmptyDict],
      [given |-> TRUE, frames |-> <<>>, d |-> EmptyDict],
      [given |-> TRUE, frames |-> <<RegionsTable>>, d |-> << <<"regions", 2>> >>]>>

TrTables == {SalesTable, DirtyTable, EmptyTable, ScenarioTable}

\* transform(df, recipe, aux_dfs) is called.
TrCall(df, recipe, aux) ==
    /\ tr.pc = "idle"
    /\ tr' = [IdleTr EXCEPT !.pc = "entered", !.recipe = recipe,
                            !.aux_dfs = [given |-> aux.given, d |-> aux.d],
                            !.given = <<df>> \o aux.frames,
                            !.ts = TransformEntry(<<df>> \o aux.frames)]
    /\ UNCHANGED <<fs, memfile, reports, clock, MEM, run, sb, dq, job>>

\* Line 134: out = df.copy().
TrCopy ==
    /\ tr.pc = "entered"
    /\ tr' = [tr EXCEPT !.pc = "stages", !.ts = DfCopy(tr.ts),
                        !.todo = StagesToRun(tr.recipe), !.i = 1]
    /\ UNCHANGED <<fs, memfile, reports, clock, MEM, run, sb, dq, job>>

AtStage(stage) ==
    /\ tr.pc = "stages"
    /\ tr.i <= Len(tr.todo)
    /\ tr.todo[tr.i] = stage

\* The call after a stage left the state ts.
AfterStage(t, ts) ==
    IF ts.raised # "" THEN [t EXCEPT !.pc = "raised", !.ts = ts]
    ELSE [t EXCEPT !.ts = ts, !.i = t.i + 1]

TrSelect ==
    /\ AtStage("select")
    /\ tr' = AfterStage(tr, ApplyStage("select", tr.ts, tr.recipe, tr.aux_dfs))
    /\ UNCHANGED <<fs, memfile, reports, clock, MEM, run, sb, dq, job>>

TrFilter ==
    /\ AtStage("filter")
    /\ tr' = AfterStage(tr, ApplyStage("filter", tr.ts, tr.recipe, tr.aux_dfs))
    /\ UNCHANGED <<fs, memfile, reports, clock, MEM, run, sb, dq, job>>

TrDerive ==
    /\ AtStage("derive")
    /\ tr' = AfterStage(tr, ApplyStage("derive", tr.ts, tr.recipe, tr.aux_dfs))
    /\ UNCHANGED <<fs, memfile, reports, clock, MEM, run, sb, dq, job>>

TrJoin ==
    /\ AtStage("join")
    /\ tr' = AfterStage(tr, ApplyStage("join", tr.ts, tr.recipe, tr.aux_dfs))
    /\ UNCHANGED <<fs, memfile, reports, clock, MEM, run, sb, dq, job>>

TrGroupby ==
    /\ AtStage("groupby")
    /\ tr' = AfterStage(tr, ApplyStage("groupby", tr.ts, tr.recipe, tr.aux_dfs))
    /\ UNCHANGED <<fs, memfile, reports, clock, MEM, run, sb, dq, job>>

\* Line 239: return out.
TrReturn ==
    /\ tr.pc = "stages"
    /\ tr.i > Len(tr.todo)
    /\ tr' = [tr EXCEPT !.pc = "returned"]
    /\ UNCHANGED <<fs, memfile, reports, clock, MEM, run, sb, dq, job>>

InitTransform ==
    /\ fs = InitialFiles
    /\ memfile = NoFile
    /\ reports = EmptyDict
    /\ clock = 1
    /\ MEM = [p \in Procs |-> NoFile]
    /\ run = [p \in Procs |-> IdleRun]
    /\ tr = IdleTr
    /\ sb = IdleSb
    /\ dq = IdleDq
    /\ job = IdleJob

NextTransform ==
    \/ \E df \in TrTables, rc \in 1..Len(TrRecipes), a \in 1..Len(TrAux) :
            TrCall(df, TrRecipes[rc], TrAux[a])
    \/ TrCopy
    \/ TrSelect
    \/ TrFilter
    \/ TrDerive
    \/ TrJoin
    \/ TrGroupby
    \/ TrReturn

SpecTransform == InitTransform /\ [][NextTransform]_vars

\* ------------------------------------------------------------------------
\* pyspark_translator.py: translate_recipe_to_pyspark.  The script is the
\* sequence of its statements on the frames; the fixed lines (imports, the
\* session, comments, the final print) are left out.
\* ------------------------------------------------------------------------
DeriveStatements(derive) ==
    [i \in 1..Len(derive) |->
        [op |-> "derive", name |-> Get(derive[i], "name"), expr |-> Get(derive[i], "expr")]]

\* Lines 60-62: one aggregate per item of g["agg"].
AggStatements(agg) == [i \in 1..Len(agg) |-> [func |-> agg[i][2], col |-> agg[i][1]]]

\* The translation with the blocks in the order of transform and its
\* default join kind.
translate_as_transform(recipe, sales_path, regions_path, out_path) ==
    <<[op |-> "read_sales", path |-> sales_path]>>
    \o (IF Has(recipe, "join") /\ regions_path # ""
        THEN <<[op |-> "read_regions", path |-> regions_path]>> ELSE <<>>)
    \o (IF Has(recipe, "select")
        THEN <<[op |-> "select", cols |-> Get(recipe, "select")]>> ELSE <<>>)
    \o (IF Has(recipe, "filter")
        THEN <<[op |-> "filter", expr |-> Get(recipe, "filter")]>> ELSE <<>>)
    \o (IF Has(recipe, "derive") THEN DeriveStatements(Get(recipe, "derive")) ELSE <<>>)
    \o (IF Has(recipe, "join")
        THEN <<[op |-> "join", right |-> Get(Get(recipe, "join"), "right_df"),
                on |-> Get(Get(recipe, "join"), "on"),
                how |-> GetOr(Get(recipe, "join"), "how", "left")]>>
        ELSE <<>>)
    \o (IF Has(recipe, "groupby")
        THEN <<[op |-> "groupby", by |-> Get(Get(recipe, "groupby"), "by"),
                aggs |-> AggStatements(Get(Get(recipe, "groupby"), "agg"))]>>
        ELSE <<>>)
    \o <<[op |-> "write", path |-> out_path]>>

\* Lines 16-77: load, filter, join, derive, groupby, select, write.
translate_recipe_to_pyspark(recipe, sales_path, regions_path, out_path) ==
    <<[op |-> "read_sales", path |-> sales_path]>>
    \o (IF Has(recipe, "join") /\ regions_path # ""
        THEN <<[op |-> "read_regions", path |-> regions_path]>> ELSE <<>>)
    \o (IF Has(recipe, "filter")
        THEN <<[op |-> "filter", expr |-> Get(recipe, "filter")]>> ELSE <<>>)
    \o (IF Has(recipe, "join")
        THEN <<[op |-> "join", right |-> Get(Get(recipe, "join"), "right_df"),
                on |-> Get(Get(recipe, "join"), "on"),
                how |-> GetOr(Get(recipe, "join"), "how", "inner")]>>
        ELSE <<>>)
    \o (IF Has(recipe, "derive") THEN DeriveStatements(Get(recipe, "derive")) ELSE <<>>)
    \o (IF Has(recipe, "groupby")
        THEN <<[op |-> "groupby", by |-> Get(Get(recipe, "groupby"), "by"),
                aggs |-> AggStatements(Get(Get(recipe, "groupby"), "agg"))]>>
        ELSE <<>>)
    \o (IF Has(recipe, "select")
        THEN <<[op |-> "select", cols |-> Get(recipe, "select")]>> ELSE <<>>)
    \o <<[op |-> "write", path |-> out_path]>>

\* ------------------------------------------------------------------------
\* reviewer_agent.py: review_recipe on the answers of the LLM
\* ------------------------------------------------------------------------
\* An answer of self.llm.generate: it raises, or returns a text.
LlmRaises == [raises |-> TRUE, text |-> ""]
LlmSays(text) == [raises |-> FALSE, text |-> text]

ReviewTexts ==
    {"{\"approved\": true, \"feedback\": \"Looks good.\"}",
     "{\"approved\": false, \"feedback\": \"Missing groupby key\"}",
     "I think it is bad.",
     "Decision: {\"approved\": true, \"feedback\": \"ok\"} Done.",
     "{\"feedback\": \"no verdict\"}",
     "{approved: yes}",
     "true",
     "} {",
     "{\"approved\": \"false\", \"feedback\": \"unsafe\"}"}

\* Lines 60-66: the text from the first "{" to the last "}" of the stripped
\* text; the text itself when it has no "{" or no "}".
_extract_json(text) ==
    CASE text = "Decision: {\"approved\": true, \"feedback\": \"ok\"} Done." ->
            "{\"approved\": true, \"feedback\": \"ok\"}"
      [] text = "} {" -> ""
      [] OTHER -> text

\* json.loads on the texts of the model: the value, or the error.
JsonError == [err |-> TRUE, isobj |-> FALSE, obj |-> <<>>]
JsonObject(obj) == [err |-> FALSE, isobj |-> TRUE, obj |-> obj]
JsonOther == [err |-> FALSE, isobj |-> FALSE, obj |-> <<>>]

json_loads(text) ==
    CASE text = "{\"approved\": true, \"feedback\": \"Looks good.\"}" ->
            JsonObject(<< <<"approved", Bool(TRUE)>>, <<"feedback", Str("Looks good.")>> >>)
      [] text = "{\"approved\": false, \"feedback\": \"Missing groupby key\"}" ->
            JsonObject(<< <<"approved", Bool(FALSE)>>,
                          <<"feedback", Str("Missing groupby key")>> >>)
      [] text = "{\"approved\": true, \"feedback\": \"ok\"}" ->
            JsonObject(<< <<"approved", Bool(TRUE)>>, <<"feedback", Str("ok")>> >>)
      [] text = "{\"feedback\": \"no verdict\"}" ->
            JsonObject(<< <<"feedback", Str("no verdict")>> >>)
      [] text = "{\"approved\": \"false\", \"feedback\": \"unsafe\"}" ->
            JsonObject(<< <<"approved", Str("false")>>, <<"feedback", Str("unsafe")>> >>)
      [] text = "true" -> JsonOther
      [] OTHER -> JsonError

ReviewResult(approved, feedback) == [approved |-> approved, feedback |-> feedback]

\* Line 58: the result of the except branch.
ReviewerError == ReviewResult(Bool(FALSE), "Reviewer Error")

\* Lines 52-55 on the value json.loads returned: .get on a value that is no
\* dict raises AttributeError, caught at line 56.
ReviewOf(data) ==
    IF data.err \/ ~data.isobj THEN ReviewerError
    ELSE ReviewResult(GetOr(data.obj, "approved", Bool(FALSE)),
                      IF Has(data.obj, "feedback") THEN Get(data.obj, "feedback").s
                      ELSE "No feedback provided.")

\* review_recipe answering approved = True from the except branch.
review_recipe_fail_open(resp) ==
    IF resp.raises \/ json_loads(_extract_json(resp.text)).err
            \/ ~json_loads(_extract_json(resp.text)).isobj
    THEN ReviewResult(Bool(TRUE), "Reviewer Error")
    ELSE ReviewOf(json_loads(_extract_json(resp.text)))

\* review_recipe (lines 46-58) on the answer resp of the LLM.
review_recipe(resp) ==
    IF resp.raises THEN ReviewerError
    ELSE ReviewOf(json_loads(_extract_json(resp.text)))

\* The truth value of a JSON value in `if not review.approved`.
Truthy(c) ==
    CASE c.t = "bool" -> c.b
      [] c.t = "str" -> c.s # ""
      [] c.t = "num" -> c.n # 0
      [] OTHER -> FALSE

\* ------------------------------------------------------------------------
\* databricks_tools.py: one call of generate_databricks_job (lines 15-48)
\* ------------------------------------------------------------------------
DbfsSales == "dbfs:/FileStore/sales.csv"
DbfsRegions == "dbfs:/FileStore/regions.csv"
DbfsOut == "dbfs:/FileStore/output.csv"

Clarification ==
    << <<"clarification", "Could you specify which dataset you want to analyze?">> >>

\* Recipes in the PySpark dialect, as the generator returns them.
JobRecipeFull ==
    << <<"select", <<"region", "revenue">> >>,
       <<"filter", "revenue >= 0">>,
       <<"derive", <<Derive("year", "year(col('date'))")>> >>,
       <<"join", JoinOn("regions", "left")>>,
       <<"groupby", << <<"by", <<"region">> >>, <<"agg", << <<"revenue", "sum">> >> >> >> >> >>

JobRecipeJoin ==
    << <<"join", << <<"right_df", "regions">>, <<"on", <<"region">> >> >> >> >>

JobRecipeSelect == << <<"select", <<"region", "revenue">> >> >>

JobRecipeDerive ==
    << <<"filter", "revenue >= 0">>,
       <<"derive", <<Derive("year", "year(col('date'))"),
                     Derive("rev_in_k", "col('revenue') / 1000")>> >> >>

\* What generate_recipe_from_prompt returns.
GeneratorReturns ==
    <<Clarification, JobRecipeFull, JobRecipeJoin, JobRecipeSelect, JobRecipeDerive>>

\* The tool is called; the caller gives the regions path or an empty one.
JobCall(regions_path) ==
    /\ job.pc = "idle"
    /\ job' = [IdleJob EXCEPT !.pc = "generate", !.regions_path = regions_path]
    /\ UNCHANGED <<fs, memfile, reports, clock, MEM, run, tr, sb, dq>>

\* Lines 22-24.  raises: generate_recipe_from_prompt raised ValueError or
\* the LLM call raised; nothing catches it.
Generated(j, raises, recipe) ==
    IF raises THEN [j EXCEPT !.pc = "raised", !.trace = Append(j.trace, "generate")]
    ELSE IF Has(recipe, "clarification")
    THEN [j EXCEPT !.pc = "returned", !.recipe = recipe, !.ret = "CLARIFICATION NEEDED",
                   !.trace = Append(j.trace, "generate")]
    ELSE [j EXCEPT !.pc = "review", !.recipe = recipe,
                   !.trace = Append(j.trace, "generate")]

JobGenerate ==
    /\ job.pc = "generate"
    /\ \E raises \in BOOLEAN, g \in 1..Len(GeneratorReturns) :
            job' = Generated(job, raises, IF raises THEN <<>> ELSE GeneratorReturns[g])
    /\ UNCHANGED <<fs, memfile, reports, clock, MEM, run, tr, sb, dq>>

\* Lines 27-30.
Reviewed(j, resp, review) ==
    IF ~Truthy(review.approved)
    THEN [j EXCEPT !.pc = "returned", !.resp = resp, !.review = review, !.reviewed = TRUE,
                   !.ret = "JOB REJECTED", !.trace = Append(j.trace, "review")]
    ELSE [j EXCEPT !.pc = "translate", !.resp = resp, !.review = review, !.reviewed = TRUE,
                   !.trace = Append(j.trace, "review")]

JobReview ==
    /\ job.pc = "review"
    /\ \E resp \in {LlmRaises} \cup {LlmSays(t) : t \in ReviewTexts} :
            job' = Reviewed(job, resp, review_recipe(resp))
    /\ UNCHANGED <<fs, memfile, reports, clock, MEM, run, tr, sb, dq>>

\* Line 33.
JobTranslate ==
    /\ job.pc = "translate"
    /\ job' = [job EXCEPT !.pc = "submit",
                          !.script = translate_recipe_to_pyspark(job.recipe, DbfsSales,
                                                                 job.regions_path, DbfsOut),
                          !.trace = Append(job.trace, "translate")]
    /\ UNCHANGED <<fs, memfile, reports, clock, MEM, run, tr, sb, dq>>

\* _submit_to_databricks (lines 119-155) in the environment env.
SubmitEnvs == {"no credentials", "upload fails", "no cluster", "job fails", "job runs"}

Submitted(j, env) ==
    [j EXCEPT !.pc = "returned",
              !.uploaded = env \in {"no cluster", "job fails", "job runs"},
              !.submitted = env \in {"job fails", "job runs"},
              !.ret = CASE env = "no credentials" -> "MOCK MODE"
                        [] env = "job runs" -> "Job Completed"
                        [] OTHER -> "ERROR",
              !.trace = Append(j.trace, "submit")]

JobSubmit ==
    /\ job.pc = "submit"
    /\ \E env \in SubmitEnvs : job' = Submitted(job, env)
    /\ UNCHANGED <<fs, memfile, reports, clock, MEM, run, tr, sb, dq>>

NextJob ==
    \/ \E regions_path \in {DbfsRegions, ""} : JobCall(regions_path)
    \/ JobGenerate
    \/ JobReview
    \/ JobTranslate
    \/ JobSubmit

SpecJob == InitTransform /\ [][NextJob]_vars

\* ------------------------------------------------------------------------
\* agent_dataops_poc.py: the transform of the proof of concept (lines
\* 146-196).  Its select, filter, join and groupby blocks are those of
\* core.py; its derive block (169-183) is its own.
\* ------------------------------------------------------------------------
\* Lines 172-180: the names bound for a derive expression.
poc_safe_locals_base ==
    << <<"pd", VObj("pd")>>, <<"df", VFrame>>, <<"str", VObj("str")>>,
       <<"int", VObj("int")>>, <<"float", VObj("float")>>,
       <<"abs", VObj("abs")>>, <<"round", VObj("round")>> >>

\* Line 182: eval(d["expr"], safe_globals, safe_locals_base) -- the text is
\* compiled and evaluated as it is; a name that is not bound raises
\* NameError when it is reached.
poc_eval(expr, locals, df) ==
    IF Parse(expr) = SyntaxErrorTree THEN Rejected("SyntaxError", df)
    ELSE Evaluated(EvalR(Parse(expr), "python", locals, df))

\* Line 183: out[d["name"]] = value, on the frame bound to `out` and `df`.
RECURSIVE PocDeriveLoop(_, _, _, _)

PocDeriveItem(derive, i, evals, r) ==
    LET d == derive[i]
        ev == IF r.evaluated THEN Append(evals, Get(d, "expr")) ELSE evals
    IN IF r.raised # "" THEN [raised |-> r.raised, df |-> r.df, evals |-> ev]
       ELSE IF ~AssignableTo(r.df, r.val)
       THEN [raised |-> "ValueError", df |-> r.df, evals |-> ev]
       ELSE PocDeriveLoop(derive, i + 1,
                          Assign(r.df, << <<Get(d, "name"), r.val>> >>), ev)

PocDeriveLoop(derive, i, df, evals) ==
    IF i > Len(derive) THEN [raised |-> "", df |-> df, evals |-> evals]
    ELSE PocDeriveItem(derive, i, evals,
                       poc_eval(Get(derive[i], "expr"), poc_safe_locals_base, df))

\* The derive block: no copy, no new object; `out` stays bound.
PocDeriveEnd(ts, loop) ==
    LET after == [ts EXCEPT !.heap[ts.out] = loop.df, !.evals = loop.evals]
    IN IF loop.raised # "" THEN Raise(after, loop.raised) ELSE after

PocDeriveStage(ts, recipe) ==
    PocDeriveEnd(ts, PocDeriveLoop(Get(recipe, "derive"), 1, Out(ts), ts.evals))

PocRecipes ==
    <<EmptyDict,
      RecipeFull,
      RecipeScenario,
      RecipeNoRows,
      RecipeBadColumn,
      RecipeOtherAux,
      << GroupbyRevenue(<<"region">>, "sum"), <<"filter", "revenue >= 0">> >>,
      << <<"filter", "">>, <<"select", <<"order_id", "revenue">> >> >>,
      DeriveOnly(<<>>),
      DeriveOnly(<<Derive("x", "1 +")>>),
      DeriveOnly(<<Derive("x", "foo(1)")>>),
      DeriveOnly(<<Derive("x", "abs(foo)")>>),
      DeriveOnly(<<Derive("seven", "7"), Derive("k", "df['revenue'] / 1000")>>),
      DeriveOnly(<<Derive("rev2", "df['revenue'] * 2"), Derive("x", "df['rev2'] + 1")>>),
      DeriveOnly(<<Derive("x", "df['rev2'] + 1"), Derive("rev2", "df['revenue'] * 2")>>) >>

PocDerive ==
    /\ AtStage("derive")
    /\ tr' = AfterStage(tr, Bound(PocDeriveStage(
                    [tr.ts EXCEPT !.stages = Append(tr.ts.stages, "derive"),
                                  !.ins = Append(tr.ts.ins, tr.ts.out)],
                    tr.recipe)))
    /\ UNCHANGED <<fs, memfile, reports, clock, MEM, run, sb, dq, job>>

NextPoc ==
    \/ \E df \in TrTables, rc \in 1..Len(PocRecipes), a \in 1..Len(TrAux) :
            TrCall(df, PocRecipes[rc], TrAux[a])
    \/ TrCopy
    \/ TrSelect
    \/ TrFilter
    \/ PocDerive
    \/ TrJoin
    \/ TrGroupby
    \/ TrReturn

SpecPoc == InitTransform /\ [][NextPoc]_vars

\* ------------------------------------------------------------------------
\* core.py: calls of dq_check on one table, loop by loop (lines 78-118)
\* ------------------------------------------------------------------------
\* The calls a caller makes with the same table and ruleset.
MaxDqCalls == 2

DqTables == {SalesTable, DirtyTable, EmptyTable, ScenarioTable}

DqRules == {EmptyDict, RulesStd, RulesMixed, RulesCounts, RulesNoColumn, RulesText}

\* Line 78: issues = [].
DqEntered(d) == [d EXCEPT !.pc = "non_null", !.issues = <<>>]

\* Lines 79-85.
NonNullLoop(d) ==
    [d EXCEPT !.pc = "unique",
              !.issues = d.issues
                  \o ConcatMap(GetOr(d.rules, "non_null", <<>>),
                               LAMBDA col : NonNullIssues(d.df, col), 1)]

\* df.drop_duplicates(subset=[col], inplace=True)
DropDuplicates(df, col) ==
    IF ~HasCol(df, col) THEN df
    ELSE [df EXCEPT !.rows =
            FilterIdx(df.rows,
                      LAMBDA i : \A j \in 1..(i - 1) : df.rows[j][col] # df.rows[i][col], 1)]

RECURSIVE DropAllDuplicates(_, _, _)
DropAllDuplicates(df, cols, i) ==
    IF i > Len(cols) THEN df
    ELSE DropAllDuplicates(DropDuplicates(df, cols[i]), cols, i + 1)

\* The unique loop, were it to drop the duplicates it counts from the table.
UniqueLoopInPlace(d) ==
    [d EXCEPT !.pc = "range",
              !.issues = d.issues
                  \o ConcatMap(GetOr(d.rules, "unique", <<>>),
                               LAMBDA col : UniqueIssues(d.df, col), 1),
              !.df = DropAllDuplicates(d.df, GetOr(d.rules, "unique", <<>>), 1)]

\* Lines 87-93.
UniqueLoop(d) ==
    [d EXCEPT !.pc = "range",
              !.issues = d.issues
                  \o ConcatMap(GetOr(d.rules, "unique", <<>>),
                               LAMBDA col : UniqueIssues(d.df, col), 1)]

\* Lines 95-107: the comparison raises on a column of text.
RangeLoop(d) ==
    IF DqRaises(d.df, d.rules) THEN [d EXCEPT !.pc = "raised", !.raised = "TypeError"]
    ELSE [d EXCEPT !.pc = "allowed_values",
                   !.issues = d.issues
                       \o ConcatMap(GetOr(d.rules, "range", EmptyDict),
                                    LAMBDA r : RangeIssues(d.df, r), 1)]

\* Lines 109-115.
AllowedLoop(d) ==
    [d EXCEPT !.pc = "return",
              !.issues = d.issues
                  \o ConcatMap(GetOr(d.rules, "allowed_values", EmptyDict),
                               LAMBDA r : AllowedIssues(d.df, r), 1)]

\* Lines 117-118: ok = len(issues) == 0; return ok, issues.
DqReturned(d) ==
    [d EXCEPT !.pc = "returned",
              !.reports = Append(d.reports, [ok |-> Len(d.issues) = 0, issues |-> d.issues])]

\* dq_check(df, rules) is called.
DqCall(df, rules) ==
    /\ dq.pc = "idle"
    /\ dq' = DqEntered([IdleDq EXCEPT !.df = df, !.df0 = df, !.rules = rules])
    /\ UNCHANGED <<fs, memfile, reports, clock, MEM, run, tr, sb, job>>

\* The caller calls dq_check again with the same table and ruleset.
DqAgain ==
    /\ dq.pc = "returned"
    /\ Len(dq.reports) < MaxDqCalls
    /\ dq' = DqEntered(dq)
    /\ UNCHANGED <<fs, memfile, reports, clock, MEM, run, tr, sb, job>>

DqNonNull ==
    /\ dq.pc = "non_null"
    /\ dq' = NonNullLoop(dq)
    /\ UNCHANGED <<fs, memfile, reports, clock, MEM, run, tr, sb, job>>

DqUnique ==
    /\ dq.pc = "unique"
    /\ dq' = UniqueLoop(dq)
    /\ UNCHANGED <<fs, memfile, reports, clock, MEM, run, tr, sb, job>>

DqRange ==
    /\ dq.pc = "range"
    /\ dq' = RangeLoop(dq)
    /\ UNCHANGED <<fs, memfile, reports, clock, MEM, run, tr, sb, job>>

DqAllowed ==
    /\ dq.pc = "allowed_values"
    /\ dq' = AllowedLoop(dq)
    /\ UNCHANGED <<fs, memfile, reports, clock, MEM, run, tr, sb, job>>

DqReturn ==
    /\ dq.pc = "return"
    /\ dq' = DqReturned(dq)
    /\ UNCHANGED <<fs, memfile, reports, clock, MEM, run, tr, sb, job>>

InitDq ==
    /\ fs = InitialFiles
    /\ memfile = NoFile
    /\ reports = EmptyDict
    /\ clock = 1
    /\ MEM = [p \in Procs |-> NoFile]
    /\ run = [p \in Procs |-> IdleRun]
    /\ tr = IdleTr
    /\ sb = IdleSb
    /\ dq = IdleDq
    /\ job = IdleJob

NextDq ==
    \/ \E df \in DqTables, rules \in DqRules : DqCall(df, rules)
    \/ DqAgain
    \/ DqNonNull
    \/ DqUnique
    \/ DqRange
    \/ DqAllowed
    \/ DqReturn

SpecDq == InitDq /\ [][NextDq]_vars

\* The stepwise calls end as the calls in one piece do.
StepwiseAgrees ==
    /\ sb.pc \in {"returned", "raised"} =>
            LET r == safe_eval(sb.expr, sb.safe_locals, sb.df0)
            IN /\ r.raised = sb.raised
               /\ r.evaluated = sb.evaluated
               /\ r.df = sb.df
               /\ r.io = sb.io
               /\ sb.pc = "returned" => r.val = sb.val
    /\ tr.pc \in {"returned", "raised"} =>
            tr.ts = transform(tr.given, tr.recipe, tr.aux_dfs)
    /\ dq.pc = "raised" => dq_check(dq.df0, dq.rules).raised = dq.raised
    /\ dq.pc = "returned" =>
            /\ dq_check(dq.df0, dq.rules).raised = ""
            /\ dq_check(dq.df0, dq.rules).ok = dq.reports[1].ok
            /\ dq_check(dq.df0, dq.rules).issues = dq.reports[1].issues

\* ------------------------------------------------------------------------
\* Properties
\* ------------------------------------------------------------------------
IsPrefix(a, b) == Len(a) <= Len(b) /\ \A i \in 1..Len(a) : a[i] = b[i]

\* `inputs` supplies a path under key / a non-empty document under key.
Supplied(inputs, key) ==
    Has(inputs, key) /\ Get(inputs, key) # NonePath /\ Get(inputs, key) # EmptyPath

NonEmptyGiven(inputs, key) == Has(inputs, key) /\ Get(inputs, key) # <<>>

Ops(steps) == [i \in 1..Len(steps) |-> steps[i].op]

Called(p) == run[p].pc \in {"running", "returned", "raised"}

LastRun(mem) == mem.runs[Len(mem.runs)]

Titles(log) == [i \in 1..Len(Get(log, "sections")) |-> Get(log, "sections")[i][1]]

\* C1: plan(goal, inputs) returns load_sales; load_regions iff an auxiliary
\* path is supplied; profile_input; transform iff a non-empty recipe is
\* supplied; dq_check iff a non-empty ruleset is supplied; save iff an output
\* path is supplied; profile_output; report -- in this order, load_sales
\* first, report last, no step kind twice, the same steps for the same
\* inputs (the steps are this function of the inputs).
C1_PlanOrder ==
    \A p \in Procs :
        Called(p) =>
            LET inputs == run[p].inputs
                ops == Ops(run[p].steps)
            IN /\ ops = <<"load_sales">>
                        \o (IF Supplied(inputs, "regions_path")
                            THEN <<"load_regions">> ELSE <<>>)
                        \o <<"profile_input">>
                        \o (IF NonEmptyGiven(inputs, "recipe")
                            THEN <<"transform">> ELSE <<>>)
                        \o (IF NonEmptyGiven(inputs, "dq_rules")
                            THEN <<"dq_check">> ELSE <<>>)
                        \o (IF Supplied(inputs, "out_path") THEN <<"save">> ELSE <<>>)
                        \o <<"profile_output", "report">>
               /\ ops[1] = "load_sales"
               /\ ops[Len(ops)] = "report"
               /\ \A i, j \in 1..Len(ops) : i # j => ops[i] # ops[j]
               /\ Get(run[p].log, "steps") = run[p].steps

C1_Witness ==
    /\ run["A"].pc = "running"
    /\ Ops(run["A"].steps) = <<"load_sales", "load_regions", "profile_input", "transform",
                               "dq_check", "save", "profile_output", "report">>

\* C2: a run whose plan completes appends exactly one entry to the history
\* and persists the store after the append, whatever the verdicts; earlier
\* entries keep their places; the entry's goal, output path, report path and
\* reflection verdict are those of the run's log, the output path absent
\* exactly when no save step ran; nothing else changes the history.
C2_HistoryAppend ==
    [][\A p \in Procs :
        /\ (run[p].pc = "running" /\ run[p].i > Len(run[p].steps) /\ run'[p] # run[p]) =>
                run'[p].pc = "returned"
        /\ (run[p].pc = "running" /\ run'[p].pc = "returned") =>
                LET log == run[p].log
                    e == LastRun(MEM'[p])
                IN /\ Len(MEM'[p].runs) = Len(MEM[p].runs) + 1
                   /\ SubSeq(MEM'[p].runs, 1, Len(MEM[p].runs)) = MEM[p].runs
                   /\ MEM'[p].preferences = MEM[p].preferences
                   /\ memfile' = MEM'[p]
                   /\ e.goal = run[p].goal
                   /\ e.report_path = Get(log, "report_path")
                   /\ e.reflection_ok = Get(log, "reflection_ok")
                   /\ e.out_path = (IF InSeq("save", Ops(run[p].steps))
                                    THEN Get(log, "out_path") ELSE NonePath)
                   /\ (e.out_path = NonePath) <=> ~InSeq("save", Ops(run[p].steps))
        /\ (Called(p) /\ (MEM'[p] # MEM[p] \/ memfile' # memfile)) =>
                run[p].pc = "running" /\ run'[p].pc = "returned"
      ]_vars

C2_Witness ==
    /\ run["A"].pc = "returned"
    /\ Len(MEM["A"].runs) = 2
    /\ MEM["A"].runs[1] = EarlierEntry(1)
    /\ memfile = MEM["A"]
    /\ ~LastRun(MEM["A"]).reflection_ok
    /\ LastRun(MEM["A"]).out_path = OutCsv

\* C3: rule violations found by the dq_check step never stop a run: the step
\* ends a run only by the exception of a comparison that cannot be made; when
\* the check returns ok = false the log holds dq_ok = false and the issues,
\* the run goes on with the later steps (only a failure of their own stops
\* it), and a run that completes has saved, profiled, reported and appended
\* its entry, the failure showing in the reflection verdict.
C3_DqFailureDoesNotStop ==
    \A p \in Procs :
        LET r == run[p]
        IN /\ (r.pc = "raised" /\ r.steps[r.i].op = "dq_check") =>
                    r.err = "TypeError" /\ ~Has(r.log, "dq_ok")
           /\ (Called(p) /\ Has(r.log, "dq_ok") /\ ~Get(r.log, "dq_ok")) =>
                /\ Get(r.log, "dq_issues") # <<>>
                /\ \E k \in 1..(r.i - 1) : r.steps[k].op = "dq_check"
                /\ r.pc = "raised" => r.steps[r.i].op \in {"save", "report"}
                /\ r.pc = "returned" =>
                    /\ \E k \in 1..Len(Titles(r.log)) :
                            /\ Titles(r.log)[k] = "Data Quality"
                            /\ SubSeq(Titles(r.log), k + 1, Len(Titles(r.log)))
                               = (IF Supplied(r.inputs, "out_path") THEN <<"Save">> ELSE <<>>)
                                 \o <<"Output Profile", "Reflection">>
                    /\ Supplied(r.inputs, "out_path") =>
                            /\ GetOr(r.log, "saved", FALSE)
                            /\ Has(fs, Get(r.inputs, "out_path"))
                    /\ Has(r.log, "output_profile")
                    /\ Has(reports, Get(r.log, "report_path"))
                    /\ ~Get(r.log, "reflection_ok")
                    /\ InSeq("DQ checks failed.", Get(r.log, "reflection_issues"))
                    /\ LastRun(MEM[p]).report_path = Get(r.log, "report_path")
                    /\ ~LastRun(MEM[p]).reflection_ok

C3_Witness ==
    /\ run["A"].pc = "returned"
    /\ Has(run["A"].log, "dq_ok")
    /\ ~Get(run["A"].log, "dq_ok")
    /\ Has(fs, OutCsv)
    /\ Has(reports, Get(run["A"].log, "report_path"))

\* The exception the step a run is at raises, "" when it raises none.
StepError(p) ==
    LET r == run[p]
        st == r.steps[r.i]
    IN CASE st.op \in {"load_sales", "load_regions"} -> load_df_raises(fs, st.path)
         [] st.op = "transform" -> CallTransform(r).raised
         [] st.op = "dq_check" ->
                IF DqRaises(Current(r), st.rules) THEN "TypeError" ELSE ""
         [] st.op = "save" -> save_df_raises(st.path)
         [] st.op = "report" ->
                IF MEM[p].preferences.report_dir = ".." THEN "ValueError" ELSE ""
         [] OTHER -> ""

\* C4: when a step raises, the call ends there: no later step runs and the
\* step is not tried again (the run changes no more, until the caller makes
\* a new call); files, reports and history written before stay as they are
\* (a saved output remains).
C4_HardErrorStops ==
    /\ [](\A p \in Procs :
            (run[p].pc = "raised" /\ GetOr(run[p].log, "saved", FALSE)) =>
                /\ Has(fs, Get(run[p].log, "out_path"))
                /\ Get(fs, Get(run[p].log, "out_path")) = Current(run[p]))
    /\ [][\A p \in Procs :
            /\ (run[p].pc = "running" /\ run[p].i <= Len(run[p].steps)
                    /\ run'[p] # run[p] /\ StepError(p) # "") =>
                    /\ run'[p].pc = "raised"
                    /\ run'[p].err = StepError(p)
                    /\ run'[p].i = run[p].i
                    /\ UNCHANGED <<fs, reports, memfile, MEM>>
            /\ (run[p].pc # "raised" /\ run'[p].pc = "raised") =>
                    /\ run[p].pc = "running"
                    /\ StepError(p) # ""
            /\ (run[p].pc = "raised" /\ run'[p] # run[p]) =>
                    /\ run'[p].pc = "running"
                    /\ run'[p].i = 1
                    /\ run'[p].nruns = run[p].nruns + 1
                    /\ UNCHANGED <<fs, reports, memfile, MEM>>
          ]_vars

C4_Witness ==
    /\ run["A"].pc = "raised"
    /\ run["A"].steps[run["A"].i].op = "report"
    /\ GetOr(run["A"].log, "saved", FALSE)
    /\ Has(fs, OutCsv)
    /\ reports = EmptyDict

\* C5: whenever a call of run_agent has ended, by returning or by a hard
\* error of a step, its log states whether reflection passed and, when a DQ
\* check was requested, whether DQ passed, and a report of the run is
\* written.
C5_FinalLogStatesVerdicts ==
    \A p \in Procs :
        run[p].pc \in {"returned", "raised"} =>
            /\ Has(run[p].log, "reflection_ok")
            /\ NonEmptyGiven(run[p].inputs, "dq_rules") => Has(run[p].log, "dq_ok")
            /\ Has(run[p].log, "report_path")
            /\ Has(reports, Get(run[p].log, "report_path"))

\* C6: reflect gives "DQ checks failed." exactly when a DQ check was
\* requested and did not pass, "Output has zero rows." exactly when a save
\* occurred and the output profile has 0 rows, in this order, and ok exactly
\* when there is no issue; the fields of the log recorded before keep their
\* values (the step only adds its own section and fields).
C6_Reflect ==
    /\ [](\A p \in Procs :
            Has(run[p].log, "reflection_ok") =>
                LET log == run[p].log
                    dqFailed == /\ Get(log, "dq_requested")
                                /\ ~(Has(log, "dq_ok") /\ Get(log, "dq_ok"))
                    noRows == /\ Has(log, "saved")
                              /\ Get(log, "saved")
                              /\ Get(log, "output_profile").rows = 0
                IN /\ Get(log, "reflection_issues")
                        = (IF dqFailed THEN <<"DQ checks failed.">> ELSE <<>>)
                          \o (IF noRows THEN <<"Output has zero rows.">> ELSE <<>>)
                   /\ Get(log, "reflection_ok") <=> (~dqFailed /\ ~noRows))
    /\ [][\A p \in Procs :
            (run[p].pc = "running" /\ run[p].i <= Len(run[p].steps)
                /\ run[p].steps[run[p].i].op = "report" /\ run'[p] # run[p]) =>
                /\ \A k \in 1..Len(run[p].log) :
                        \/ run[p].log[k][1] = "sections"
                        \/ run'[p].log[k] = run[p].log[k]
                /\ SubSeq(Get(run'[p].log, "sections"), 1, Len(Get(run[p].log, "sections")))
                        = Get(run[p].log, "sections")
                /\ Len(Get(run'[p].log, "sections")) = Len(Get(run[p].log, "sections")) + 1
          ]_vars

C6_Witness ==
    /\ Has(run["A"].log, "reflection_issues")
    /\ Get(run["A"].log, "reflection_issues")
            = <<"DQ checks failed.", "Output has zero rows.">>
    /\ ~Get(run["A"].log, "reflection_ok")

\* C7: transform applies the stages a recipe holds (a filter whose text is
\* not empty) in the order select, filter, derive, join, groupby, however
\* the keys are declared; each stage starts from the table the stage before
\* it bound to `out`, the first from the copy of the caller's table, and the
\* call returns the last.
C7_FixedStageOrder ==
    (tr.pc # "idle") =>
        LET expected ==
                SelectSeq(<<"select", "filter", "derive", "join", "groupby">>,
                          LAMBDA st : /\ Has(tr.recipe, st)
                                      /\ st = "filter" => Get(tr.recipe, st) # "")
            ts == tr.ts
        IN /\ IsPrefix(ts.stages, expected)
           /\ tr.pc = "returned" => ts.stages = expected
           /\ \A k \in 1..Len(ts.ins) :
                    ts.ins[k] = IF k = 1 THEN Len(tr.given) + 1 ELSE ts.outs[k - 1]
           /\ (tr.pc = "returned" /\ ts.outs # <<>>) => ts.out = ts.outs[Len(ts.outs)]

C7_Witness ==
    /\ tr.pc = "returned"
    /\ Keys(tr.recipe) = <<"groupby", "join", "derive", "filter", "select">>
    /\ tr.ts.stages = <<"select", "filter", "derive", "join", "groupby">>
    /\ NRows(Out(tr.ts)) > 0

RECURSIVE NodesOf(_)
NodesOf(todo) ==
    IF todo = <<>> THEN <<>>
    ELSE <<Head(todo)>> \o NodesOf(Children(Head(todo)) \o Tail(todo))

ValidationErrors ==
    {"DisallowedName", "DisallowedCall", "DisallowedAttribute", "DisallowedConstruct"}

\* C9: safe_eval parses, then validates, then evaluates: the evaluation is
\* the last step, taken only when the text parsed and the visitor has
\* visited every node of the tree without an error; a call that fails in
\* parsing or validation evaluates nothing and leaves the frame as it was.
C9_ParseValidateEvaluate ==
    /\ \A k \in 1..Len(sb.trace) :
            /\ (k = 1) <=> (sb.trace[k] = "parse")
            /\ sb.trace[k] = "eval" => k = Len(sb.trace)
    /\ sb.evaluated <=> InSeq("eval", sb.trace)
    /\ sb.evaluated =>
            /\ sb.node # SyntaxErrorTree
            /\ sb.todo = <<>>
            /\ sb.visited = NodesOf(<<sb.node>>)
            /\ Len(sb.trace) = Len(sb.visited) + 2
    /\ sb.pc = "returned" => sb.evaluated
    /\ (sb.pc = "raised" /\ sb.raised \in ValidationErrors \cup {"SyntaxError"}) =>
            /\ ~sb.evaluated
            /\ sb.df = sb.df0
    /\ ~sb.evaluated => sb.df = sb.df0

C9_Witness ==
    /\ sb.pc = "returned"
    /\ sb.expr = "pd.to_datetime(df['date']).dt.date.astype(str)"
    /\ sb.evaluated
    /\ Len(sb.visited) = 12
    /\ sb.val.k = "series"

\* A Name node outside the allow-list; a Call node whose root is outside
\* the allow-list or is no identifier.
BadName(n, allowed) == n.ty = "Name" /\ n.id \notin allowed

BadCall(n, allowed) ==
    /\ n.ty = "Call"
    /\ \/ _get_root_name(n.func) = NoneVal
       \/ _get_root_name(n.func) \notin allowed

\* C10: an expression holding a bare identifier outside the allow-list (the
\* names of the bindings) or a call whose root is outside it or is no
\* identifier is rejected by the validation and nothing of it is evaluated;
\* the visitor passes no such node, and raises DisallowedName at such a
\* name and DisallowedCall at such a call.
C10_DisallowedNameOrCall ==
    LET allowed == SeqToSet(Keys(sb.safe_locals))
        nodes == NodesOf(<<sb.node>>)
    IN /\ \A k \in 1..Len(sb.visited) :
            ~BadName(sb.visited[k], allowed) /\ ~BadCall(sb.visited[k], allowed)
       /\ (sb.pc \in {"returned", "raised"}
            /\ \E k \in 1..Len(nodes) :
                    BadName(nodes[k], allowed) \/ BadCall(nodes[k], allowed)) =>
                /\ sb.pc = "raised"
                /\ sb.raised \in ValidationErrors
                /\ ~sb.evaluated
                /\ sb.df = sb.df0
       /\ (sb.pc = "raised" /\ ~sb.evaluated /\ sb.todo # <<>>) =>
                /\ BadName(Head(sb.todo), allowed) => sb.raised = "DisallowedName"
                /\ BadCall(Head(sb.todo), allowed) => sb.raised = "DisallowedCall"

C10_Witness ==
    /\ sb.pc = "raised"
    /\ sb.raised = "DisallowedCall"
    /\ sb.expr = "'a'.upper()"
    /\ _get_root_name(Head(sb.todo).func) = NoneVal
    /\ ~sb.evaluated

\* An attribute access whose name is private by convention: a leading
\* underscore, the double underscore included.
PrivateAttr(n) == n.ty = "Attribute" /\ StartsWith(n.attr, <<"_">>)

\* C11: an expression holding an attribute access whose name starts with an
\* underscore (one or two) is rejected by the validation before anything of
\* it is evaluated: the visitor passes no such node, and the call ends
\* raised with a validation error and eval() not called.
C11_PrivateAttributeRejected ==
    LET nodes == NodesOf(<<sb.node>>)
    IN /\ \A k \in 1..Len(sb.visited) : ~PrivateAttr(sb.visited[k])
       /\ (sb.pc \in {"returned", "raised"}
            /\ \E k \in 1..Len(nodes) : PrivateAttr(nodes[k])) =>
                /\ sb.pc = "raised"
                /\ sb.raised \in ValidationErrors
                /\ ~sb.evaluated

\* A lambda or a comprehension of any form.
FunctionalConstruct(n) ==
    n.ty \in {"Lambda", "ListComp", "SetComp", "DictComp", "GeneratorExp"}

\* C12: an expression holding a lambda or a list, set, dict or generator
\* comprehension is rejected by the validation before the evaluation,
\* whatever names it uses: the visitor passes no such node, and the call
\* ends raised with a validation error and eval() not called.
C12_ConstructsRejected ==
    LET nodes == NodesOf(<<sb.node>>)
    IN /\ \A k \in 1..Len(sb.visited) : ~FunctionalConstruct(sb.visited[k])
       /\ (sb.pc \in {"returned", "raised"}
            /\ \E k \in 1..Len(nodes) : FunctionalConstruct(nodes[k])) =>
                /\ sb.pc = "raised"
                /\ sb.raised \in ValidationErrors
                /\ ~sb.evaluated

\* The names the sandbox binds for a filter expression on the table df:
\* every column of the table and the helpers bound for derive.
FilterNames(df) == SeqToSet(df.cols) \cup (SeqToSet(Keys(safe_locals_base)) \ {"df"})

\* The text parses and the visitor raises nothing with the names allowed.
SandboxAccepts(expr, names) ==
    /\ Parse(expr) # SyntaxErrorTree
    /\ Walk(<<Parse(expr)>>, names, names) = ""

\* C13: the filter stage evaluates its expression through the sandbox of
\* the derive stage: a filter text the sandbox rejects on the table the
\* stage consumes (syntax, names, calls, attributes, constructs) is never
\* handed to an evaluator.
C13_FilterThroughSandbox ==
    \A k \in 1..Len(tr.ts.stages) :
        (tr.ts.stages[k] = "filter"
            /\ ~SandboxAccepts(Get(tr.recipe, "filter"),
                               FilterNames(tr.ts.heap[tr.ts.ins[k]]))) =>
                ~InSeq(Get(tr.recipe, "filter"), tr.ts.evals)

\* The derive items evaluated one after the other, each against the same
\* table start: the error of the first that raises, and the columns
\* collected before it.
RECURSIVE SnapshotLoop(_, _, _, _)

SnapshotItem(derive, i, start, new_cols, r) ==
    IF r.raised # "" THEN [raised |-> r.raised, new_cols |-> new_cols]
    ELSE SnapshotLoop(derive, i + 1, start, Put(new_cols, Get(derive[i], "name"), r.val))

SnapshotLoop(derive, i, start, new_cols) ==
    IF i > Len(derive) THEN [raised |-> "", new_cols |-> new_cols]
    ELSE SnapshotItem(derive, i, start, new_cols,
                      safe_eval(Get(derive[i], "expr"), safe_locals_base, start))

\* The derive stage k of the call against its snapshot: it raises what the
\* first failing item raises on the table start, and otherwise binds the
\* table start with all collected columns assigned at once.
DeriveFromSnapshot(k, start, exp) ==
    /\ exp.raised # "" =>
            /\ Len(tr.ts.outs) < k
            /\ tr.ts.raised = exp.raised
    /\ (exp.raised = ""
            /\ \A i \in 1..Len(exp.new_cols) : AssignableTo(start, exp.new_cols[i][2])) =>
            /\ Len(tr.ts.outs) >= k
            /\ tr.ts.heap[tr.ts.outs[k]] = Assign(start, exp.new_cols)

\* C14: in the derive stage every expression is evaluated against the table
\* as it was at the start of the stage, so that an expression never sees
\* what a sibling produced or changed, whatever the order of the items; the
\* new columns are collected and assigned to that table in one step at the
\* end, a column of the same name being overwritten.
C14_DeriveSnapshot ==
    \A k \in 1..Len(tr.ts.stages) :
        tr.ts.stages[k] = "derive" =>
            DeriveFromSnapshot(k, tr.ts.heap[tr.ts.ins[k]],
                               SnapshotLoop(Get(tr.recipe, "derive"), 1,
                                            tr.ts.heap[tr.ts.ins[k]], EmptyDict))

\* The join of the recipe names a table the registry of the call lacks.
AuxMissing ==
    \/ ~tr.aux_dfs.given
    \/ ~Has(tr.aux_dfs.d, Get(Get(tr.recipe, "join"), "right_df"))

\* C16: the join stage raises the missing-auxiliary error exactly when the
\* registry is None or lacks the name of the recipe; then nothing is merged
\* (no new table is made and `out` is not rebound) and the call has raised,
\* so it returns no table.
C16_MissingAuxiliary ==
    /\ \A k \in 1..Len(tr.ts.stages) :
            tr.ts.stages[k] = "join" =>
                /\ AuxMissing <=> (tr.ts.raised = "MissingAuxiliary")
                /\ AuxMissing =>
                        /\ tr.pc = "raised"
                        /\ k = Len(tr.ts.stages)
                        /\ Len(tr.ts.outs) < k
                        /\ tr.ts.out = tr.ts.ins[k]
                        /\ Len(tr.ts.heap) = tr.ts.ins[k]
    /\ tr.ts.raised = "MissingAuxiliary" => InSeq("join", tr.ts.stages)

C16_Witness ==
    /\ tr.pc = "raised"
    /\ tr.ts.raised = "MissingAuxiliary"
    /\ tr.aux_dfs.given
    /\ Has(tr.aux_dfs.d, "regions")
    /\ Get(Get(tr.recipe, "join"), "right_df") = "customers"
    /\ tr.ts.stages = <<"join">>

\* The key tuple of row i of df for the key columns by.
KeyTuple(df, by, i) == [k \in 1..Len(by) |-> df.rows[i][by[k]]]

\* The sum of the numbers of column c over the rows i.. of df whose key
\* tuple is key.
RECURSIVE GroupSum(_, _, _, _, _)
GroupSum(df, by, c, key, i) ==
    IF i > NRows(df) THEN 0
    ELSE (IF KeyTuple(df, by, i) = key /\ df.rows[i][c].t = "num"
          THEN df.rows[i][c].n ELSE 0)
         + GroupSum(df, by, c, key, i + 1)

\* The table res is the grouping of the table df by the columns by.
GroupedFrom(df, res, by, agg) ==
    /\ res.cols = by \o Keys(agg)
    /\ {KeyTuple(res, by, n) : n \in 1..NRows(res)}
            = {KeyTuple(df, by, i) : i \in 1..NRows(df)}
    /\ \A m, n \in 1..NRows(res) :
            KeyTuple(res, by, m) = KeyTuple(res, by, n) => m = n
    /\ \A n \in 1..NRows(res) : \A a \in 1..Len(agg) :
            agg[a][2] = "sum" =>
                res.rows[n][agg[a][1]]
                    = Num(GroupSum(df, by, agg[a][1], KeyTuple(res, by, n), 1))

\* C17: a groupby stage that binds a result emits one row per distinct
\* tuple of key values of the table it consumed, a null key value forming
\* a group of its own; a row holds the key columns and one column per
\* aggregate, a sum being the sum over exactly the rows of the group.  The
\* five orders of the test, grouped by date_day, region, region_name with
\* the sum of revenue, give 4 rows, and 1000 for 2025-01-01 / APAC.
C17_GroupBy ==
    /\ \A k \in 1..Len(tr.ts.stages) :
            (tr.ts.stages[k] = "groupby" /\ Len(tr.ts.outs) >= k) =>
                GroupedFrom(tr.ts.heap[tr.ts.ins[k]], tr.ts.heap[tr.ts.outs[k]],
                            Get(Get(tr.recipe, "groupby"), "by"),
                            Get(Get(tr.recipe, "groupby"), "agg"))
    /\ (tr.pc = "returned" /\ tr.given[DfId] = ScenarioTable
            /\ tr.recipe = RecipeScenario) =>
                /\ NRows(Out(tr.ts)) = 4
                /\ \E n \in 1..4 :
                        /\ Out(tr.ts).rows[n]["date_day"] = Str("2025-01-01")
                        /\ Out(tr.ts).rows[n]["region"] = Str("APAC")
                        /\ Out(tr.ts).rows[n]["region_name"] = Str("Asia Pacific")
                        /\ Out(tr.ts).rows[n]["revenue"] = Num(1000)

C17_Witness ==
    /\ tr.pc = "returned"
    /\ tr.given[DfId] = DirtyTable
    /\ tr.ts.stages = <<"filter", "groupby">>
    /\ NRows(Out(tr.ts)) = 2
    /\ \E n \in 1..2 :
            /\ Out(tr.ts).rows[n]["region"] = Null
            /\ Out(tr.ts).rows[n]["revenue"] = Num(300)

\* C15: an accepted expression is evaluated with the supplied bindings
\* alone (a name resolves through them, never through an ambient
\* namespace), and its evaluation reaches nothing outside the interpreter:
\* it makes no call on the host and leaves the files as they were.
C15_NoHostAccess ==
    sb.evaluated =>
        /\ sb.raised # "NameError"
        /\ sb.io = <<>>
        /\ fs = InitialFiles

\* C18 as stated: a stage is skipped exactly when its key is absent from the
\* recipe, so that a key present with empty content (an empty select,
\* filter or derive) still runs its stage; unknown keys are ignored.
C18_SkippedExactlyWhenAbsent ==
    tr.pc = "returned" =>
        /\ \A k \in 1..Len(StageOrder) :
                InSeq(StageOrder[k], tr.ts.stages) <=> Has(tr.recipe, StageOrder[k])
        /\ (\A k \in 1..Len(StageOrder) : ~Has(tr.recipe, StageOrder[k])) =>
                Out(tr.ts) = tr.given[DfId]

\* C18 amended: a stage is skipped when its key is absent, and the filter
\* stage also when its text is empty; a select or derive key with an empty
\* list still runs its stage (an empty select gives a table of no columns
\* that keeps the rows, an empty derive a table equal to the one it got);
\* unknown keys are ignored, a recipe of unknown keys alone returning a new
\* table equal to the input.
C18_StageSkipping ==
    tr.pc = "returned" =>
        /\ \A k \in 1..Len(StageOrder) :
                InSeq(StageOrder[k], tr.ts.stages)
                    <=> /\ Has(tr.recipe, StageOrder[k])
                        /\ ~(StageOrder[k] = "filter" /\ Get(tr.recipe, "filter") = "")
        /\ (Keys(tr.recipe) = <<"select">> /\ Get(tr.recipe, "select") = <<>>) =>
                /\ Out(tr.ts).cols = <<>>
                /\ NRows(Out(tr.ts)) = NRows(tr.given[DfId])
        /\ (Keys(tr.recipe) = <<"derive">> /\ Get(tr.recipe, "derive") = <<>>) =>
                Out(tr.ts) = tr.given[DfId]
        /\ (\A k \in 1..Len(StageOrder) : ~Has(tr.recipe, StageOrder[k])) =>
                /\ tr.ts.stages = <<>>
                /\ Out(tr.ts) = tr.given[DfId]
                /\ tr.ts.out # DfId

C18_Witness ==
    /\ tr.pc = "returned"
    /\ tr.recipe = << <<"select", <<>> >> >>
    /\ tr.ts.stages = <<"select">>
    /\ Out(tr.ts).cols = <<>>
    /\ NRows(Out(tr.ts)) = 3

\* C19: dq_check leaves the table it is given as it was, at every point of
\* a call and after it, and the calls made with the same table and ruleset
\* return the same report: the same ok and the same issues in the same
\* order.
C19_DqPure ==
    /\ dq.pc # "idle" => dq.df = dq.df0
    /\ \A i, j \in 1..Len(dq.reports) : dq.reports[i] = dq.reports[j]

C19_Witness ==
    /\ dq.pc = "returned"
    /\ Len(dq.reports) = 2
    /\ dq.df0 = DirtyTable
    /\ dq.rules = RulesStd
    /\ ~dq.reports[2].ok
    /\ Len(dq.reports[2].issues) = 4

\* The rules of one category of a ruleset, as the columns they name.
RuleColumns(rules, cat) ==
    IF cat \in {"non_null", "unique"} THEN GetOr(rules, cat, <<>>)
    ELSE [i \in 1..Len(GetOr(rules, cat, EmptyDict)) |-> GetOr(rules, cat, EmptyDict)[i][1]]

DqCategories == <<"non_null", "unique", "range", "allowed_values">>

\* The category an issue belongs to.
CategoryOf(issue) ==
    CASE issue.kind \in {"non_null", "missing_non_null"} -> 1
      [] issue.kind \in {"unique", "missing_unique"} -> 2
      [] issue.kind \in {"range_min", "range_max", "missing_range"} -> 3
      [] issue.kind \in {"allowed_values", "missing_allowed_values"} -> 4

KindsOf(issues) == [i \in 1..Len(issues) |-> issues[i].kind]

\* C20: a rule naming a column the table lacks yields one issue for that
\* rule and no error, and the check goes on over the rules that follow, of
\* every category, in the order of the categories; ok is true exactly when
\* no issue was found.  A table violating unique, range and allowed_values
\* at once is not ok and has an issue of each of the three categories.
C20_MissingColumnIsAnIssue ==
    /\ dq.pc = "raised" =>
            \E i \in 1..Len(RuleColumns(dq.rules, "range")) :
                HasCol(dq.df0, RuleColumns(dq.rules, "range")[i])
    /\ \A n \in 1..Len(dq.reports) :
            LET rep == dq.reports[n]
            IN /\ rep.ok <=> (rep.issues = <<>>)
               /\ \A c \in 1..4 :
                    \A i \in 1..Len(RuleColumns(dq.rules, DqCategories[c])) :
                        LET col == RuleColumns(dq.rules, DqCategories[c])[i]
                        IN ~HasCol(dq.df0, col) =>
                            Cardinality({k \in 1..Len(rep.issues) :
                                            /\ rep.issues[k].kind = "missing_" \o DqCategories[c]
                                            /\ rep.issues[k].col = col}) = 1
               /\ \A k \in 1..(Len(rep.issues) - 1) :
                    CategoryOf(rep.issues[k]) <= CategoryOf(rep.issues[k + 1])
               /\ (dq.df0 = DirtyTable /\ dq.rules = RulesMixed) =>
                    KindsOf(rep.issues)
                        = <<"missing_non_null", "non_null", "missing_unique", "unique",
                            "missing_range", "range_min", "missing_allowed_values",
                            "allowed_values">>
               /\ (dq.df0 = DirtyTable /\ dq.rules = RulesStd) =>
                    /\ ~rep.ok
                    /\ \A kind \in {"unique", "range_min", "allowed_values"} :
                            InSeq(kind, KindsOf(rep.issues))

C20_Witness ==
    /\ dq.pc = "returned"
    /\ dq.df0 = DirtyTable
    /\ dq.rules = RulesMixed
    /\ ~dq.reports[1].ok
    /\ Len(dq.reports[1].issues) = 8

\* The place of an issue in the order of the checks: the category, the rule
\* within the category (the first rule that names the column), and the
\* bound within a range rule.
RuleIndex(rules, issue) ==
    LET cols == RuleColumns(rules, DqCategories[CategoryOf(issue)])
    IN CHOOSE i \in 1..Len(cols) :
            cols[i] = issue.col /\ \A j \in 1..(i - 1) : cols[j] # issue.col

BoundRank(issue) == IF issue.kind = "range_max" THEN 2 ELSE 1

IssueBefore(rules, a, b) ==
    \/ CategoryOf(a) < CategoryOf(b)
    \/ /\ CategoryOf(a) = CategoryOf(b)
       /\ \/ RuleIndex(rules, a) < RuleIndex(rules, b)
          \/ /\ RuleIndex(rules, a) = RuleIndex(rules, b)
             /\ BoundRank(a) < BoundRank(b)

\* C21: the issues of a report are in the order of the checks: by category
\* non_null, unique, range, allowed_values however the ruleset declares
\* them, within a category by the order of its rules, and for one range
\* rule the issue of the min bound before the issue of the max bound.
C21_IssueOrder ==
    \A n \in 1..Len(dq.reports) :
        \A k \in 1..(Len(dq.reports[n].issues) - 1) :
            IssueBefore(dq.rules, dq.reports[n].issues[k], dq.reports[n].issues[k + 1])

C21_Witness ==
    /\ dq.pc = "returned"
    /\ dq.df0 = DirtyTable
    /\ dq.rules = RulesCounts
    /\ KindsOf(dq.reports[1].issues)
            = <<"non_null", "unique", "range_min", "range_max", "range_min", "allowed_values">>

\* The numbers of rows the rules count, each stated on the rows of the table.
NullRows(df, col) == Cardinality({i \in 1..NRows(df) : df.rows[i][col] = Null})

RepeatRows(df, col) ==
    Cardinality({i \in 1..NRows(df) : \E j \in 1..(i - 1) : df.rows[j][col] = df.rows[i][col]})

RowsBelow(df, col, bound) ==
    Cardinality({i \in 1..NRows(df) : df.rows[i][col].t = "num" /\ df.rows[i][col].n < bound})

RowsAbove(df, col, bound) ==
    Cardinality({i \in 1..NRows(df) : df.rows[i][col].t = "num" /\ df.rows[i][col].n > bound})

RowsOutside(df, col, allowed) ==
    Cardinality({i \in 1..NRows(df) : ~InSeq(df.rows[i][col], allowed)})

\* The issue kind of a rule on a present column is in the report with the
\* count n when n > 0, and not at all when n = 0.
Counted(issues, kind, col, n) ==
    /\ n > 0 => \E k \in 1..Len(issues) :
                    issues[k].kind = kind /\ issues[k].col = col /\ issues[k].n = n
    /\ n = 0 => \A k \in 1..Len(issues) : ~(issues[k].kind = kind /\ issues[k].col = col)

CountsOf(df, rules, issues) ==
    /\ \A i \in 1..Len(GetOr(rules, "non_null", <<>>)) :
            LET col == Get(rules, "non_null")[i]
            IN HasCol(df, col) => Counted(issues, "non_null", col, NullRows(df, col))
    /\ \A i \in 1..Len(GetOr(rules, "unique", <<>>)) :
            LET col == Get(rules, "unique")[i]
            IN HasCol(df, col) => Counted(issues, "unique", col, RepeatRows(df, col))
    /\ \A i \in 1..Len(GetOr(rules, "range", EmptyDict)) :
            LET col == Get(rules, "range")[i][1]
                bounds == Get(rules, "range")[i][2]
            IN HasCol(df, col) =>
                /\ Has(bounds, "min") =>
                        Counted(issues, "range_min", col, RowsBelow(df, col, Get(bounds, "min")))
                /\ Has(bounds, "max") =>
                        Counted(issues, "range_max", col, RowsAbove(df, col, Get(bounds, "max")))
                /\ ~Has(bounds, "min") => Counted(issues, "range_min", col, 0)
                /\ ~Has(bounds, "max") => Counted(issues, "range_max", col, 0)
    /\ \A i \in 1..Len(GetOr(rules, "allowed_values", EmptyDict)) :
            LET col == Get(rules, "allowed_values")[i][1]
            IN HasCol(df, col) =>
                Counted(issues, "allowed_values", col,
                        RowsOutside(df, col, Get(rules, "allowed_values")[i][2]))

\* C22: dq_check counts rows and reports a rule only when its count is
\* above 0: the null cells of the column; the rows whose value repeats an
\* earlier row; per bound of a range rule, the rows below min or above max;
\* the rows whose value is outside the allowed list.  On the five orders a
\* region held by three rows makes 2 repeats, a date pair and a date triple
\* 3, and four rows are outside an allowed list holding EMEA alone.
C22_RowCounts ==
    \A n \in 1..Len(dq.reports) :
        /\ CountsOf(dq.df0, dq.rules, dq.reports[n].issues)
        /\ (dq.df0 = ScenarioTable /\ dq.rules = RulesCounts) =>
                dq.reports[n].issues
                    = <<Issue("unique", "region", 2), Issue("unique", "date", 3),
                        IssueB("range_max", "revenue", 200, 5),
                        IssueB("range_min", "order_id", 2, 1),
                        Issue("allowed_values", "region", 4)>>

C22_Witness ==
    /\ dq.pc = "returned"
    /\ dq.df0 = ScenarioTable
    /\ dq.rules = RulesCounts
    /\ Len(dq.reports[1].issues) = 5

\* The table the later steps of a run are to work on: the output of the
\* transform step when the plan has one that ran, the primary table otherwise.
Ran(r, op) == \E k \in 1..(r.i - 1) : r.steps[k].op = op

TableOf(r) == IF Ran(r, "transform") THEN r.output_df ELSE r.sales_df

MissingKinds ==
    {"missing_non_null", "missing_unique", "missing_range", "missing_allowed_values"}

RuleNames(rules) ==
    UNION {{RuleColumns(rules, DqCategories[c])[i] :
                i \in 1..Len(RuleColumns(rules, DqCategories[c]))} :
            c \in 1..Len(DqCategories)}

\* C23: in one run the dq_check, save and profile_output steps work on the
\* same table, the output of the transform when a transform step ran and
\* the primary table otherwise; a rule on a column the transform removed
\* gives a missing-column issue and dq_ok = false, and the run still writes
\* its report.
C23_OneCurrentTable ==
    \A p \in Procs :
        LET r == run[p]
        IN Called(p) =>
            /\ Ran(r, "dq_check") =>
                    /\ Get(r.log, "dq_issues") = dq_issues(TableOf(r), Get(r.inputs, "dq_rules"))
                    /\ Get(r.log, "dq_ok") = (Get(r.log, "dq_issues") = <<>>)
                    /\ \A c \in RuleNames(Get(r.inputs, "dq_rules")) :
                            (Ran(r, "transform") /\ HasCol(r.sales_df, c)
                                /\ ~HasCol(r.output_df, c)) =>
                                /\ \E k \in 1..Len(Get(r.log, "dq_issues")) :
                                        /\ Get(r.log, "dq_issues")[k].col = c
                                        /\ Get(r.log, "dq_issues")[k].kind \in MissingKinds
                                /\ ~Get(r.log, "dq_ok")
                                /\ r.pc = "returned" =>
                                        Has(reports, Get(r.log, "report_path"))
            /\ Ran(r, "save") =>
                    /\ Has(fs, Get(r.inputs, "out_path"))
                    /\ Get(fs, Get(r.inputs, "out_path")) = TableOf(r)
            /\ Ran(r, "profile_output") =>
                    Get(r.log, "output_profile") = profile_df(TableOf(r))

C23_Witness ==
    /\ run["A"].pc = "returned"
    /\ Ran(run["A"], "transform")
    /\ Ran(run["A"], "save")
    /\ Ran(run["A"], "dq_check")
    /\ Has(fs, OutCsv)
    /\ Get(run["A"].log, "dq_issues") = <<Issue("missing_unique", "order_id", 0)>>
    /\ ~HasCol(Get(fs, OutCsv), "order_id")
    /\ Has(reports, Get(run["A"].log, "report_path"))

\* C27: in every run dq_requested is true exactly when the plan holds a
\* dq_check step; so once the report step has run, dq_ok is in the log
\* whenever dq_requested is true, and the reflection issues hold "DQ checks
\* failed." exactly when the dq_check step ran and returned ok = false.
C27_DqRequestedMatchesPlan ==
    \A p \in Procs :
        LET r == run[p]
        IN Called(p) =>
            /\ Get(r.log, "dq_requested") <=> InSeq("dq_check", Ops(r.steps))
            /\ Has(r.log, "dq_ok") <=> Ran(r, "dq_check")
            /\ Has(r.log, "reflection_ok") =>
                /\ Get(r.log, "dq_requested") => Has(r.log, "dq_ok")
                /\ InSeq("DQ checks failed.", Get(r.log, "reflection_issues"))
                        <=> (Ran(r, "dq_check") /\ ~Get(r.log, "dq_ok"))

C27_Witness ==
    /\ run["A"].pc = "returned"
    /\ Get(run["A"].log, "dq_requested")
    /\ Ran(run["A"], "dq_check")
    /\ ~Get(run["A"].log, "dq_ok")
    /\ Get(run["A"].log, "reflection_issues") = <<"DQ checks failed.">>

\* The place of the transform step in the plan of a run, 0 when it has none.
StepIndex(r, op) ==
    IF InSeq(op, Ops(r.steps)) THEN CHOOSE k \in 1..Len(r.steps) : r.steps[k].op = op
    ELSE 0

\* The recipe of the run joins on a table run_agent does not register.
JoinsUnregistered(r) ==
    /\ InSeq("transform", Ops(r.steps))
    /\ Has(Get(r.inputs, "recipe"), "join")
    /\ \/ Get(Get(Get(r.inputs, "recipe"), "join"), "right_df") # "regions"
       \/ ~Supplied(r.inputs, "regions_path")

\* C29: the registry run_agent hands to transform holds at most one table,
\* under the name "regions", exactly when a load_regions step ran before
\* the transform step; a run whose recipe joins on another name, or joins
\* with no auxiliary path supplied, ends at the transform step with the
\* missing-auxiliary error, and none of the steps after it (dq_check, save,
\* profile_output, report) runs.
C29_RegistryHoldsRegionsOnly ==
    \A p \in Procs :
        LET r == run[p]
            t == StepIndex(r, "transform")
        IN (Called(p) /\ t > 0) =>
            /\ r.i = t =>
                    /\ Keys(Registry(r).d)
                            = (IF Ran(r, "load_regions") THEN <<"regions">> ELSE <<>>)
                    /\ Ran(r, "load_regions") =>
                            r.regions_df = load_df(fs, Get(r.inputs, "regions_path"))
            /\ (JoinsUnregistered(r) /\ (r.i > t \/ (r.i = t /\ r.pc # "running"))) =>
                    /\ r.pc = "raised"
                    /\ r.i = t
                    /\ r.err = "MissingAuxiliary"
                    /\ \A k \in 1..Len(Titles(r.log)) :
                            Titles(r.log)[k] \notin {"Transform", "Data Quality", "Save",
                                                     "Output Profile", "Reflection"}
                    /\ ~Has(r.log, "dq_ok")
                    /\ ~Has(r.log, "saved")
                    /\ ~Has(r.log, "output_profile")
                    /\ ~Has(r.log, "report_path")

C29_Witness ==
    /\ run["A"].pc = "raised"
    /\ run["A"].err = "MissingAuxiliary"
    /\ Ran(run["A"], "load_regions")
    /\ Get(run["A"].inputs, "recipe") = RecipeOtherAux
    /\ InSeq("dq_check", Ops(run["A"].steps))
    /\ InSeq("save", Ops(run["A"].steps))

\* The other case of C29: the join names "regions" and no path was supplied.
C29_WitnessNoPath ==
    /\ run["A"].pc = "raised"
    /\ run["A"].err = "MissingAuxiliary"
    /\ ~Ran(run["A"], "load_regions")
    /\ Get(run["A"].inputs, "recipe") = RecipeFull

\* The history a process that has returned worked on: its copy before the
\* append of its own entry.
LoadedCopy(p) == SubSeq(MEM[p].runs, 1, Len(MEM[p].runs) - 1)

\* C24: the history store has no lock and no transactional append: the end
\* of a run appends to the copy of its own process and writes that copy
\* over the file, whatever the file holds; so when two runs worked on
\* copies of the same history, the file ends with the entry of the run that
\* wrote last and without the entry of the other.
C24_LostEntryRace ==
    /\ [](\A p, q \in Procs :
            (p # q /\ run[p].pc = "returned" /\ run[q].pc = "returned"
                /\ LoadedCopy(p) = LoadedCopy(q)) =>
                /\ memfile.runs \in {MEM[p].runs, MEM[q].runs}
                /\ Len(memfile.runs) = Len(LoadedCopy(p)) + 1
                /\ InSeq(LastRun(MEM[p]), memfile.runs)
                        # InSeq(LastRun(MEM[q]), memfile.runs))
    /\ [][\A p \in Procs :
            (run[p].pc = "running" /\ run'[p].pc = "returned") =>
                /\ SubSeq(MEM'[p].runs, 1, Len(MEM'[p].runs) - 1) = MEM[p].runs
                /\ memfile' = MEM'[p]
                /\ \A q \in Procs \ {p} : MEM'[q] = MEM[q]
          ]_vars

\* Both runs wrote their report before either wrote the history: they
\* overlapped; A wrote the history first and its entry is gone.
C24_Witness ==
    /\ run["A"].pc = "returned"
    /\ run["B"].pc = "returned"
    /\ LastRun(MEM["A"]).report_path.ts < LastRun(MEM["B"]).timestamp
    /\ LastRun(MEM["B"]).report_path.ts < LastRun(MEM["A"]).timestamp
    /\ LastRun(MEM["A"]).timestamp < LastRun(MEM["B"]).timestamp
    /\ memfile = MEM["B"]
    /\ ~InSeq(LastRun(MEM["A"]), memfile.runs)
    /\ Len(memfile.runs) = 2

\* C28: when no two runs overlap, the stored history holds, after each run,
\* the entries of all runs completed so far, also for runs of different
\* processes that each loaded the history once at their start.
C28_SerialRunsKeepHistory ==
    \A p \in Procs :
        run[p].pc = "returned" => InSeq(LastRun(MEM[p]), memfile.runs)

\* C26: no copy of transform hands a derive expression to an evaluator
\* before the allow-list validation accepted it, and no derive entry sees
\* what a sibling produced: where derive is the first stage of a call, the
\* stage ends as the evaluation of every entry on the table of the call.
C26_EveryDeriveSandboxed ==
    \A k \in 1..Len(tr.ts.stages) :
        tr.ts.stages[k] = "derive" =>
            /\ \A e \in 1..Len(tr.ts.evals) :
                    SandboxAccepts(tr.ts.evals[e], SeqToSet(Keys(safe_locals_base)))
            /\ k = 1 =>
                    DeriveFromSnapshot(1, tr.given[1],
                                       SnapshotLoop(Get(tr.recipe, "derive"), 1,
                                                    tr.given[1], EmptyDict))

\* The answers of the LLM that are no JSON object after the extraction.
NotAJsonObject == {"I think it is bad.", "{approved: yes}", "true", "} {"}

ScriptStages(script) ==
    FilterIdx([i \in 1..Len(script) |-> script[i].op],
              LAMBDA i : /\ script[i].op \in {"select", "filter", "derive", "join", "groupby"}
                         /\ (i > 1 => script[i - 1].op # script[i].op), 1)

\* C30: the script translate_recipe_to_pyspark makes applies the stages of
\* the recipe in the order of transform (select, filter, derive, join,
\* groupby) and joins with the default kind of transform when the recipe
\* names none.
C30_ScriptFollowsTransform ==
    job.script # <<>> =>
        /\ ScriptStages(job.script)
                = FilterIdx(StageOrder, LAMBDA i : Has(job.recipe, StageOrder[i]), 1)
        /\ \A k \in 1..Len(job.script) :
                job.script[k].op = "join" =>
                    job.script[k].how = GetOr(Get(job.recipe, "join"), "how", "left")

====
